---- MODULE Spec2Model ----
(***************************************************************************)
(* The SQL-backed log index of frontier (client/db/src/sql/mod.rs).        *)
(*                                                                         *)
(* The store is the four tables blocks, transactions, logs and             *)
(* sync_status.  `db` is the committed store, `tx` the working copy of the *)
(* one open write transaction (SQLite allows one writer at a time; the     *)
(* writer is `writer`).  Every public operation is run by a task of Tasks, *)
(* one statement or one blocking call per step, so that calls interleave   *)
(* where the code awaits.                                                  *)
(***************************************************************************)
EXTENDS Integers, Sequences, FiniteSets, Bags, TLC

(***************************************************************************)
(* Bounds of the model.                                                    *)
(***************************************************************************)
\* Public operations started in one behaviour.
MaxCalls == 3
\* Longest `hashes` argument of insert_block_metadata.
MaxBatchLen == 2
\* Largest max_pending_blocks argument of index_pending_block_logs.
MaxPending == 2

Tasks == {"t1", "t2"}

(***************************************************************************)
(* The chain reader.  Three native blocks: h0 is the genesis block (its    *)
(* digest carries no post-hashes log and its state no receipts), h1 and h2 *)
(* are two forks at height 1 that carry the same Ethereum block.  What the *)
(* reader answers for a hash is fixed; which fork is the canonical block   *)
(* of height 1 is the state `chain.canon1`.  A fourth block, h3 at height  *)
(* 2, is in the stores that filter_logs is run on; the reader has no       *)
(* canonical hash of its height.                                           *)
(***************************************************************************)
Hashes == {"h0", "h1", "h2"}
NoHash == "none"
ZeroHash == "zero"

\* A hash the client has no header for.
UnknownHash == "hx"

\* A block whose digest carries two Ethereum consensus logs.
TwoLogsHash == "hm"

\* A block with a header whose state the client cannot read (pruned, or not
\* imported yet).
PrunedHash == "hp"

\* client.header(hash): the header's number
HeaderNumber(h) ==
  CASE h = "h0" -> 0 [] h = "h1" -> 1 [] h = "h2" -> 1 [] h = "h3" -> 2
    [] h = TwoLogsHash -> 2 [] h = PrunedHash -> 2

\* fp_consensus::find_log(header.digest())
FindLog(h) ==
  IF h = "h0" THEN "NotFound"
  ELSE IF h = TwoLogsHash THEN "MultipleLogs"
  ELSE "Ok"

\* log.into_hashes(): the Ethereum block hash and transaction hashes
PostHashes(h) ==
  CASE h \in {"h1", "h2"} ->
         [block_hash |-> "e1", transaction_hashes |-> <<"x1", "x2">>]
    [] h = "h3" -> [block_hash |-> "e3", transaction_hashes |-> <<"x3">>]
    [] h = PrunedHash -> [block_hash |-> "e4", transaction_hashes |-> <<"x4">>]
    [] OTHER -> [block_hash |-> "e0", transaction_hashes |-> <<>>]

\* The receipts of the Ethereum block in block h: per receipt, the list of its
\* logs.
Receipts(h) ==
  CASE h \in {"h1", "h2"} ->
         << << [address |-> "alice", topics |-> <<"ta", "tb">>],
               [address |-> "bob",   topics |-> <<"ta">>] >>,
            << [address |-> "bob",   topics |-> <<"tb", "ta", "tc", "td">>] >> >>
    [] h = "h3" ->
         << << [address |-> "alice", topics |-> <<"ta", "ta", "ta", "ta">>] >> >>
    [] h = PrunedHash ->
         << << [address |-> "bob", topics |-> <<"tc">>] >> >>
    [] OTHER -> << >>

\* handler.current_receipts(&id): None when the state of the block cannot be
\* read, Some(receipts) otherwise.
current_receipts(h) ==
  IF h \in {UnknownHash, PrunedHash} THEN << >> ELSE <<Receipts(h)>>

\* current_receipts(&id).unwrap_or_default()
ReceiptsOrDefault(h) ==
  IF current_receipts(h) = << >> THEN << >> ELSE current_receipts(h)[1]

\* client.hash(number)
CanonicalHash(c, n) == IF n = 0 THEN "h0" ELSE IF n = 1 THEN c.canon1 ELSE NoHash

onchain_storage_schema(h) == "V3"

(***************************************************************************)
(* The store.  blocks, transactions and sync_status are sets of rows (a    *)
(* UNIQUE key is enforced by the statement that inserts); logs is a bag of *)
(* rows, so that two rows with the same key would be two rows.             *)
(***************************************************************************)
EmptyDb ==
  [blocks |-> {}, transactions |-> {}, logs |-> EmptyBag, sync_status |-> {}]

\* UNIQUE (ethereum_block_hash, substrate_block_hash)
SameBlockKey(r, s) ==
  /\ r.ethereum_block_hash = s.ethereum_block_hash
  /\ r.substrate_block_hash = s.substrate_block_hash

\* UNIQUE (ethereum_transaction_hash, substrate_block_hash)
SameTransactionKey(r, s) ==
  /\ r.ethereum_transaction_hash = s.ethereum_transaction_hash
  /\ r.substrate_block_hash = s.substrate_block_hash

\* UNIQUE (log_index, transaction_index, substrate_block_hash)
SameLogKey(r, s) ==
  /\ r.log_index = s.log_index
  /\ r.transaction_index = s.transaction_index
  /\ r.substrate_block_hash = s.substrate_block_hash

\* INSERT OR REPLACE INTO blocks: the row replaces the row of its key.
InsertOrReplaceBlock(d, row) ==
  [d EXCEPT !.blocks = {r \in @ : ~SameBlockKey(r, row)} \cup {row}]

\* The blocks INSERT run for the canonical blocks only.
InsertBlockIfCanon(d, row) ==
  IF row.is_canon = 0 \/ \E r \in d.blocks : SameBlockKey(r, row)
  THEN d
  ELSE [d EXCEPT !.blocks = @ \cup {row}]

\* INSERT OR IGNORE INTO blocks(...) VALUES (?, ?, ?, ?, ?)
InsertOrIgnoreBlock(d, row) ==
  IF \E r \in d.blocks : SameBlockKey(r, row)
  THEN d
  ELSE [d EXCEPT !.blocks = @ \cup {row}]

\* INSERT OR IGNORE INTO transactions(...) VALUES (?, ?, ?, ?)
InsertOrIgnoreTransaction(d, row) ==
  IF \E r \in d.transactions : SameTransactionKey(r, row)
  THEN d
  ELSE [d EXCEPT !.transactions = @ \cup {row}]

\* INSERT OR IGNORE INTO logs(...) VALUES (?, ?, ?, ?, ?, ?, ?, ?)
InsertOrIgnoreLog(d, row) ==
  IF \E r \in BagToSet(d.logs) : SameLogKey(r, row)
  THEN d
  ELSE [d EXCEPT !.logs = @ (+) SetToBag({row})]

SeqToSet(s) == {s[i] : i \in 1..Len(s)}

QueuedHashes(d) == {r.substrate_block_hash : r \in d.sync_status}

\* INSERT OR REPLACE INTO sync_status: queued hashes are reset to pending.
InsertOrReplaceSyncStatus(d, hashes) ==
  IF hashes = << >>
  THEN [ok |-> FALSE, err |-> "err_syntax", db |-> d]
  ELSE [ok |-> TRUE, err |-> "none",
        db |-> [d EXCEPT !.sync_status =
                  {r \in @ : r.substrate_block_hash \notin SeqToSet(hashes)}
                  \cup {[substrate_block_hash |-> h, status |-> 0] :
                          h \in SeqToSet(hashes)}]]

\* INSERT INTO sync_status(substrate_block_hash) VALUES (?), (?), ...
\* One statement: a conflict on UNIQUE (substrate_block_hash) fails it whole;
\* with no hashes the statement ends after VALUES and does not parse.
InsertSyncStatus(d, hashes) ==
  IF hashes = << >>
  THEN [ok |-> FALSE, err |-> "err_syntax", db |-> d]
  ELSE IF \/ SeqToSet(hashes) \cap QueuedHashes(d) # {}
          \/ Cardinality(SeqToSet(hashes)) # Len(hashes)
  THEN [ok |-> FALSE, err |-> "err_unique", db |-> d]
  ELSE [ok |-> TRUE, err |-> "none",
        db |-> [d EXCEPT !.sync_status = @ \cup
                  {[substrate_block_hash |-> h, status |-> 0] :
                     h \in SeqToSet(hashes)}]]

\* UPDATE blocks SET is_canon = 0 in the place of both statements of canonicalize.
UpdateIsCanonZero(d, hashes, v) ==
  [d EXCEPT !.blocks =
     {IF r.substrate_block_hash \in hashes THEN [r EXCEPT !.is_canon = 0] ELSE r :
        r \in @}]

\* The two statements of canonicalize with their values exchanged.
UpdateIsCanonInverted(d, hashes, v) ==
  [d EXCEPT !.blocks =
     {IF r.substrate_block_hash \in hashes THEN [r EXCEPT !.is_canon = 1 - v] ELSE r :
        r \in @}]

\* UPDATE blocks SET is_canon = 0|1 with no WHERE: every row is updated.
UpdateIsCanonAll(d, hashes, v) ==
  [d EXCEPT !.blocks = {[r EXCEPT !.is_canon = v] : r \in @}]

\* Variant: the retracted blocks are deleted in the place of being flagged.
UpdateIsCanonDeleting(d, hashes, v) ==
  [d EXCEPT !.blocks =
     IF v = 0
     THEN {r \in @ : r.substrate_block_hash \notin hashes}
     ELSE {IF r.substrate_block_hash \in hashes THEN [r EXCEPT !.is_canon = v] ELSE r :
             r \in @}]

\* UPDATE blocks SET is_canon = 0|1 WHERE substrate_block_hash IN (?, ...)
UpdateIsCanon(d, hashes, v) ==
  [d EXCEPT !.blocks =
     {IF r.substrate_block_hash \in hashes THEN [r EXCEPT !.is_canon = v] ELSE r :
        r \in @}]

\* The subquery without its WHERE status = 0.
SelectQueued(d) == QueuedHashes(d)

\* SELECT substrate_block_hash FROM sync_status WHERE status = 0
SelectPending(d) ==
  {r.substrate_block_hash : r \in {s \in d.sync_status : s.status = 0}}

Min(a, b) == IF a < b THEN a ELSE b

\* Variant: the subquery without its LIMIT.
SelectPendingNoLimit(d, n) == {SelectPending(d)}

\* ... LIMIT n: the sets of hashes the subquery can return.
SelectPendingLimit(d, n) ==
  {S \in SUBSET SelectPending(d) :
     Cardinality(S) = Min(n, Cardinality(SelectPending(d)))}

\* UPDATE sync_status SET status = 1 WHERE substrate_block_hash IN (...)
UpdateSyncStatusClaimed(d, S) ==
  [d EXCEPT !.sync_status =
     {IF r.substrate_block_hash \in S THEN [r EXCEPT !.status = 1] ELSE r :
        r \in @}]

(***************************************************************************)
(* The blocking workers: what they read from the chain reader.             *)
(***************************************************************************)
\* No header is found: every hash is skipped.
HasNoHeader(h) == FALSE

\* client.header(hash) is Ok(Some(header))
HasHeader(h) == h # UnknownHash

\* Variant: every block is taken for canonical.
IsCanonAlways(c, hash) == 1

\* is_canon of insert_block_metadata_inner: the canonical hash of the header's
\* number is this hash (a missing hash or a failed lookup gives 0).
IsCanon(c, hash) == IF CanonicalHash(c, HeaderNumber(hash)) = hash THEN 1 ELSE 0

BlockMetadata(c, hash) ==
  [substrate_block_hash |-> hash,
   block_number         |-> HeaderNumber(hash),
   post_hashes          |-> PostHashes(hash),
   schema               |-> onchain_storage_schema(hash),
   is_canon             |-> IsCanon(c, hash)]

\* Variant: a digest with several logs is passed over like one with none.
RECURSIVE MetadataLoopSkipping(_, _, _)
MetadataLoopSkipping(c, hashes, out) ==
  IF hashes = << >>
  THEN [ok |-> TRUE, out |-> out]
  ELSE LET hash == Head(hashes) IN
       IF ~HasHeader(hash) \/ FindLog(hash) # "Ok"
       THEN MetadataLoopSkipping(c, Tail(hashes), out)
       ELSE MetadataLoopSkipping(c, Tail(hashes), Append(out, BlockMetadata(c, hash)))

\* Variant: the loop ends at the first hash with no header or no log.
RECURSIVE MetadataLoopBreaking(_, _, _)
MetadataLoopBreaking(c, hashes, out) ==
  IF hashes = << >>
  THEN [ok |-> TRUE, out |-> out]
  ELSE LET hash == Head(hashes) IN
       IF ~HasHeader(hash) \/ FindLog(hash) = "NotFound"
       THEN [ok |-> TRUE, out |-> out]
       ELSE IF FindLog(hash) = "MultipleLogs"
       THEN [ok |-> FALSE, out |-> << >>]
       ELSE MetadataLoopBreaking(c, Tail(hashes), Append(out, BlockMetadata(c, hash)))

RECURSIVE MetadataLoop(_, _, _)
MetadataLoop(c, hashes, out) ==
  IF hashes = << >>
  THEN [ok |-> TRUE, out |-> out]
  ELSE LET hash == Head(hashes) IN
       IF ~HasHeader(hash) \/ FindLog(hash) = "NotFound"
       THEN MetadataLoop(c, Tail(hashes), out)
       ELSE IF FindLog(hash) = "MultipleLogs"
       THEN [ok |-> FALSE, out |-> << >>]
       ELSE MetadataLoop(c, Tail(hashes), Append(out, BlockMetadata(c, hash)))

\* Ok(out) or Err(Error::Protocol) of insert_block_metadata_inner
insert_block_metadata_inner(c, hashes) == MetadataLoop(c, hashes, << >>)

BlockRow(m) ==
  [ethereum_block_hash     |-> m.post_hashes.block_hash,
   substrate_block_hash    |-> m.substrate_block_hash,
   block_number            |-> m.block_number,
   ethereum_storage_schema |-> m.schema,
   is_canon                |-> m.is_canon]

TransactionRow(m, i) ==
  [ethereum_transaction_hash  |-> m.post_hashes.transaction_hashes[i],
   substrate_block_hash       |-> m.substrate_block_hash,
   ethereum_block_hash        |-> m.post_hashes.block_hash,
   ethereum_transaction_index |-> i - 1]

RECURSIVE InsertTransactions(_, _, _)
InsertTransactions(d, m, i) ==
  IF i > Len(m.post_hashes.transaction_hashes)
  THEN d
  ELSE InsertTransactions(InsertOrIgnoreTransaction(d, TransactionRow(m, i)), m, i + 1)

\* The statements of insert_block_metadata's loop over block_metadata.
RECURSIVE InsertBlocks(_, _)
InsertBlocks(d, metadata) ==
  IF metadata = << >>
  THEN d
  ELSE InsertBlocks(
         InsertTransactions(InsertOrIgnoreBlock(d, BlockRow(Head(metadata))),
                            Head(metadata), 1),
         Tail(metadata))

\* log.topics.get(i).unwrap_or(&H256::zero()), i counted from 1
Topic(log, i) == IF i <= Len(log.topics) THEN log.topics[i] ELSE ZeroHash

\* The number of logs in the receipts before receipt ti of block h.
RECURSIVE LogsBefore(_, _)
LogsBefore(h, ti) ==
  IF ti <= 1 THEN 0 ELSE LogsBefore(h, ti - 1) + Len(ReceiptsOrDefault(h)[ti - 1])

\* Variant: log_index counts the logs of the whole block.
LogRowBlockIndex(h, ti, li) ==
  LET log == ReceiptsOrDefault(h)[ti][li] IN
  [address              |-> log.address,
   topic_1              |-> Topic(log, 1),
   topic_2              |-> Topic(log, 2),
   topic_3              |-> Topic(log, 3),
   topic_4              |-> Topic(log, 4),
   log_index            |-> LogsBefore(h, ti) + li - 1,
   transaction_index    |-> ti - 1,
   substrate_block_hash |-> h]

LogRow(h, ti, li) ==
  LET log == ReceiptsOrDefault(h)[ti][li] IN
  [address              |-> log.address,
   topic_1              |-> Topic(log, 1),
   topic_2              |-> Topic(log, 2),
   topic_3              |-> Topic(log, 3),
   topic_4              |-> Topic(log, 4),
   log_index            |-> li - 1,
   transaction_index    |-> ti - 1,
   substrate_block_hash |-> h]

\* The Log records get_logs builds for the claimed hashes.
get_logs(block_hashes) ==
  UNION {UNION {{LogRow(h, ti, li) : li \in 1..Len(ReceiptsOrDefault(h)[ti])} :
                  ti \in 1..Len(ReceiptsOrDefault(h))} :
           h \in block_hashes}

\* The INSERT OR IGNORE INTO logs of every Log record.
RECURSIVE InsertLogs(_, _)
InsertLogs(d, logs) ==
  IF logs = {}
  THEN d
  ELSE LET log == CHOOSE l \in logs : TRUE IN
       InsertLogs(InsertOrIgnoreLog(d, log), logs \ {log})

(***************************************************************************)
(* filter_logs: the topic sets, the query and its rows.                    *)
(***************************************************************************)
MAX_TOPIC_COUNT == 4

\* Option::None in a topic row
None == "None"

\* The bits of from_block and to_block (u64) and of the column they are bound
\* to (i64), scaled down.
BlockBits == 3

U64 == 0..(2^BlockBits - 1)

\* from_block as i64, to_block as i64
AsI64(v) == IF v >= 2^(BlockBits - 1) THEN v - 2^BlockBits ELSE v

\* LIMIT 10001, scaled down to the stores of the model.
QueryLimit == 3

EmptyTopics == [i \in 1..MAX_TOPIC_COUNT |-> {}]

\* The inner loop with unique_topics[0].insert(topic) for every position.
RECURSIVE TopicsIntoFirst(_, _, _)
TopicsIntoFirst(T, row, i) ==
  IF i > Len(row)
  THEN [ok |-> TRUE, out |-> T]
  ELSE IF i - 1 = MAX_TOPIC_COUNT
  THEN [ok |-> FALSE, out |-> T]
  ELSE TopicsIntoFirst(IF row[i] # None THEN [T EXCEPT ![1] = @ \cup {row[i]}] ELSE T,
                       row, i + 1)

\* The inner loop without the return of the Err: the positions after the
\* fourth are skipped.
RECURSIVE TopicsUnchecked(_, _, _)
TopicsUnchecked(T, row, i) ==
  IF i > Len(row)
  THEN [ok |-> TRUE, out |-> T]
  ELSE TopicsUnchecked(IF row[i] # None /\ i <= MAX_TOPIC_COUNT
                       THEN [T EXCEPT ![i] = @ \cup {row[i]}] ELSE T,
                       row, i + 1)

\* for (topic_index, topic) in topic_combination.into_iter().enumerate(),
\* the position i being topic_index + 1
RECURSIVE TopicCombination(_, _, _)
TopicCombination(T, row, i) ==
  IF i > Len(row)
  THEN [ok |-> TRUE, out |-> T]
  ELSE IF i - 1 = MAX_TOPIC_COUNT
  THEN [ok |-> FALSE, out |-> T]
  ELSE TopicCombination(IF row[i] # None THEN [T EXCEPT ![i] = @ \cup {row[i]}] ELSE T,
                        row, i + 1)

\* for topic_combination in topics.into_iter(): Ok(unique_topics) or the Err
\* of a row with more than MAX_TOPIC_COUNT positions
RECURSIVE UniqueTopics(_, _)
UniqueTopics(T, topics) ==
  IF topics = << >>
  THEN [ok |-> TRUE, out |-> T]
  ELSE LET r == TopicCombination(T, Head(topics), 1) IN
       IF r.ok THEN UniqueTopics(r.out, Tail(topics))
       ELSE [ok |-> FALSE, out |-> EmptyTopics]

\* The orders a HashSet can be iterated in.
Orders(S) ==
  {s \in [1..Cardinality(S) -> S] : \A i, j \in 1..Cardinality(S) : s[i] = s[j] => i = j}

SelectFrom ==
  "SELECT l.substrate_block_hash, b.ethereum_block_hash, b.block_number, b.ethereum_storage_schema, l.transaction_index, l.log_index FROM logs AS l INNER JOIN blocks AS b ON (b.block_number BETWEEN "

GroupOrderLimit ==
  " GROUP BY l.substrate_block_hash, l.transaction_index, l.log_index ORDER BY b.block_number ASC, l.transaction_index ASC, l.log_index ASC LIMIT 10001"

AddressIn == " AND l.address IN ("

TopicIn(i) ==
  CASE i = 1 -> " AND l.topic_1 IN (" [] i = 2 -> " AND l.topic_2 IN ("
    [] i = 3 -> " AND l.topic_3 IN (" [] i = 4 -> " AND l.topic_4 IN ("

TopicEq(i) ==
  CASE i = 1 -> " AND l.topic_1 = " [] i = 2 -> " AND l.topic_2 = "
    [] i = 3 -> " AND l.topic_3 = " [] i = 4 -> " AND l.topic_4 = "

\* qb.separated(sep) with n push_bind: n placeholders, sep between them
RECURSIVE Separated(_, _)
Separated(sep, n) ==
  IF n = 0 THEN << >>
  ELSE IF n = 1 THEN <<"?">>
  ELSE Separated(sep, n - 1) \o <<sep, "?">>

\* values separated by sep, pushed into the text
RECURSIVE Pushed(_, _)
Pushed(sep, values) ==
  IF values = << >> THEN << >>
  ELSE IF Len(values) = 1 THEN values
  ELSE <<Head(values), sep>> \o Pushed(sep, Tail(values))

\* The loop over the topic sets with push in the place of push_bind: the
\* values are written into the text, in the order of the iteration.
RECURSIVE TopicClausesPushed(_, _)
TopicClausesPushed(topics, i) ==
  IF i > MAX_TOPIC_COUNT THEN << >>
  ELSE (IF Len(topics[i]) > 1
        THEN <<TopicIn(i)>> \o Pushed(", ", topics[i]) \o <<")">>
        ELSE IF Len(topics[i]) = 1
        THEN <<TopicEq(i), topics[i][1]>>
        ELSE << >>)
       \o TopicClausesPushed(topics, i + 1)

\* The loop over the topic sets with IN ( also for a set of one value.
RECURSIVE TopicClausesAllIn(_, _)
TopicClausesAllIn(topics, i) ==
  IF i > MAX_TOPIC_COUNT THEN << >>
  ELSE (IF Len(topics[i]) > 0
        THEN <<TopicIn(i)>> \o Separated(", ", Len(topics[i])) \o <<")">>
        ELSE << >>)
       \o TopicClausesAllIn(topics, i + 1)

\* for (i, topic_options) in topics.iter().enumerate(): the text pushed
RECURSIVE TopicClauses(_, _)
TopicClauses(topics, i) ==
  IF i > MAX_TOPIC_COUNT THEN << >>
  ELSE (IF Len(topics[i]) > 1
        THEN <<TopicIn(i)>> \o Separated(", ", Len(topics[i])) \o <<")">>
        ELSE IF Len(topics[i]) = 1
        THEN <<TopicEq(i), "?">>
        ELSE << >>)
       \o TopicClauses(topics, i + 1)

\* The query of build_query: the text as the sequence of the pieces pushed
\* (a placeholder is "?") and the values bound, in the order they are bound.
\* topics gives every topic set as the sequence it is iterated in.
build_query(from_block, to_block, addresses, topics) ==
  [sql |->
     <<SelectFrom, "?", " AND ", "?", ")",
       " AND b.substrate_block_hash = l.substrate_block_hash",
       " AND b.is_canon = 1", " WHERE 1">>
     \o (IF addresses # << >>
         THEN <<AddressIn>> \o Separated(", ", Len(addresses)) \o <<")">>
         ELSE << >>)
     \o TopicClauses(topics, 1)
     \o <<GroupOrderLimit>>,
   arguments |->
     <<AsI64(from_block), AsI64(to_block)>> \o addresses
     \o topics[1] \o topics[2] \o topics[3] \o topics[4]]

(***************************************************************************)
(* The engine's answer to the query of build_query.                        *)
(***************************************************************************)
\* The column a piece of the WHERE clause compares.
Column(piece) ==
  CASE piece = AddressIn -> "address"
    [] piece \in {TopicIn(1), TopicEq(1)} -> "topic_1"
    [] piece \in {TopicIn(2), TopicEq(2)} -> "topic_2"
    [] piece \in {TopicIn(3), TopicEq(3)} -> "topic_3"
    [] piece \in {TopicIn(4), TopicEq(4)} -> "topic_4"

RECURSIVE ListEnd(_, _)
ListEnd(sql, k) == IF sql[k] = ")" THEN k ELSE ListEnd(sql, k + 1)

\* The comparisons of the WHERE clause from piece k on, arguments[a] being the
\* value of the next placeholder: per comparison, the column and the values.
RECURSIVE Conditions(_, _, _)
Conditions(q, k, a) ==
  IF q.sql[k] = GroupOrderLimit
  THEN << >>
  ELSE IF q.sql[k] \in {AddressIn} \cup {TopicIn(i) : i \in 1..MAX_TOPIC_COUNT}
  THEN LET e == ListEnd(q.sql, k)
           n == Cardinality({x \in k..e : q.sql[x] = "?"})
       IN <<[column |-> Column(q.sql[k]),
             values |-> {q.arguments[x] : x \in a..(a + n - 1)}]>>
          \o Conditions(q, e + 1, a + n)
  ELSE <<[column |-> Column(q.sql[k]), values |-> {q.arguments[a]}]>>
       \o Conditions(q, k + 2, a + 1)

\* struct FilteredLog, from a row of the join
FilteredLog(l, b) ==
  [substrate_block_hash    |-> l.substrate_block_hash,
   ethereum_block_hash     |-> b.ethereum_block_hash,
   block_number            |-> b.block_number,
   ethereum_storage_schema |-> b.ethereum_storage_schema,
   transaction_index       |-> l.transaction_index,
   log_index               |-> l.log_index]

\* FROM logs AS l INNER JOIN blocks AS b ON (b.block_number BETWEEN ? AND ?)
\* AND b.substrate_block_hash = l.substrate_block_hash AND b.is_canon = 1
\* WHERE 1 AND ...
Joined(d, q) ==
  LET conds == Conditions(q, 9, 3) IN
  {FilteredLog(p[1], p[2]) :
     p \in {x \in BagToSet(d.logs) \X d.blocks :
              /\ x[2].block_number >= q.arguments[1]
              /\ x[2].block_number <= q.arguments[2]
              /\ x[2].substrate_block_hash = x[1].substrate_block_hash
              /\ x[2].is_canon = 1
              /\ \A c \in 1..Len(conds) : x[1][conds[c].column] \in conds[c].values}}

GroupKey(r) == <<r.substrate_block_hash, r.transaction_index, r.log_index>>

\* GROUP BY l.substrate_block_hash, l.transaction_index, l.log_index: one row
\* of every group, whichever the engine takes.
Grouped(rows) ==
  {S \in SUBSET rows :
     \A r \in rows : Cardinality({x \in S : GroupKey(x) = GroupKey(r)}) = 1}

OrderKeyBefore(r, s) ==
  \/ r.block_number < s.block_number
  \/ /\ r.block_number = s.block_number
     /\ \/ r.transaction_index < s.transaction_index
        \/ /\ r.transaction_index = s.transaction_index
           /\ r.log_index < s.log_index

\* The rows in any order.
RECURSIVE Unordered(_)
Unordered(S) ==
  IF S = {} THEN {<< >>}
  ELSE UNION {{<<m>> \o s : s \in Unordered(S \ {m})} : m \in S}

\* ORDER BY b.block_number ASC, l.transaction_index ASC, l.log_index ASC: the
\* orders the engine can give, rows of equal keys in either order.
RECURSIVE Ordered(_)
Ordered(S) ==
  IF S = {} THEN {<< >>}
  ELSE UNION {{<<m>> \o s : s \in Ordered(S \ {m})} :
                m \in {x \in S : \A y \in S : ~OrderKeyBefore(y, x)}}

Limit(s) == SubSeq(s, 1, Min(Len(s), QueryLimit))

\* The sequences of rows query.fetch can yield on the store d.
QueryResults(d, q) ==
  {Limit(s) : s \in UNION {Ordered(S) : S \in Grouped(Joined(d, q))}}

(***************************************************************************)
(* State.                                                                  *)
(***************************************************************************)
VARIABLES
  db,      \* the committed store
  tx,      \* the store as the open write transaction sees it (db when none)
  writer,  \* the task whose transaction holds SQLite's write lock, or NoTask
  task,    \* per task: the operation it runs, its arguments, locals and result
  chain,   \* the chain reader's canonical view
  calls,   \* operations started so far
  hist     \* history of the committed calls: per hash, the passes of
           \* index_pending_block_logs that claimed it (claims) and, when the
           \* canonicalize calls are recorded (rec): what the latest
           \* canonicalize that named TrackedHash did to it (last), and the
           \* blocks table before a canonicalize(X, {}) that is followed, with
           \* no commit between, by canonicalize({}, X) (flip)

vars == <<db, tx, writer, task, chain, calls, hist>>

NoTask == "none"

(***************************************************************************)
(* XcmToEthereum::into_transaction_v2 (src/primitives/xcm).  An Option is  *)
(* a sequence: << >> is None, <<v>> is Some(v).                            *)
(***************************************************************************)
\* The bits of U256, scaled down.
FeeBits == 3

U256Max == 2^FeeBits - 1
U256 == 0..U256Max

\* Variant: the product wraps around.
wrapping_mul(a, b) == (a * b) % (2^FeeBits)

\* U256::saturating_mul
saturating_mul(a, b) == IF a * b > U256Max THEN U256Max ELSE a * b

\* ManualEthereumXcmFee
ManualFees ==
  [gas_price : {<< >>, <<1>>}, max_fee_per_gas : {<< >>, <<2>>},
   max_priority_fee_per_gas : {<< >>, <<1>>}]

\* AutoEthereumXcmFee
AutoFees == {"Low", "Medium", "High"}

\* EthereumXcmFee
EthereumXcmFee ==
  {[kind |-> "Manual", manual |-> m, auto |-> "Low"] : m \in ManualFees}
  \cup {[kind |-> "Auto", manual |-> CHOOSE m \in ManualFees : TRUE, auto |-> a] :
          a \in AutoFees}

\* The access_list field: None, Some of no address, Some of one address.
AccessLists == {<< >>, << << >> >>, << <<"a1">> >>}

\* EthereumXcmTransactionV1 (action, value and input are copied as they are)
EthereumXcmTransactionV1 ==
  [gas_limit : {1}, fee_payment : EthereumXcmFee, access_list : AccessLists]

\* (gas_price, max_fee, max_priority_fee) of the fee configuration
FeeOptions(fee_payment, base_fee) ==
  IF fee_payment.kind = "Manual"
  THEN <<fee_payment.manual.gas_price, fee_payment.manual.max_fee_per_gas,
         fee_payment.manual.max_priority_fee_per_gas>>
  ELSE CASE fee_payment.auto = "Low" -> << << >>, <<base_fee>>, << >> >>
         [] fee_payment.auto = "Medium" ->
              << << >>, <<saturating_mul(base_fee, 2)>>, <<base_fee>> >>
         [] fee_payment.auto = "High" ->
              << << >>, <<saturating_mul(base_fee, 3)>>,
                 <<saturating_mul(base_fee, 2)>> >>

\* A TransactionV2; the fields a kind does not have are << >>.
TransactionV2(kind, nonce, gas_price, max_fee, max_priority_fee, gas_limit, access_list) ==
  [kind                     |-> kind,
   nonce                    |-> nonce,
   gas_price                |-> gas_price,
   max_fee_per_gas          |-> max_fee,
   max_priority_fee_per_gas |-> max_priority_fee,
   gas_limit                |-> gas_limit,
   access_list              |-> access_list]

\* Option<TransactionV2> of EthereumXcmTransactionV1::into_transaction_v2
into_transaction_v2(self, base_fee, nonce) ==
  LET f                == FeeOptions(self.fee_payment, base_fee)
      gas_price        == f[1]
      max_fee          == f[2]
      max_priority_fee == f[3]
  IN IF gas_price # << >> /\ max_fee = << >> /\ max_priority_fee = << >>
     THEN IF self.access_list # << >>
          THEN <<TransactionV2("EIP2930", nonce, gas_price, << >>, << >>,
                               self.gas_limit, self.access_list[1])>>
          ELSE <<TransactionV2("Legacy", nonce, gas_price, << >>, << >>,
                               self.gas_limit, << >>)>>
     ELSE IF gas_price = << >> /\ max_fee # << >>
     THEN <<TransactionV2("EIP1559", nonce, << >>, max_fee,
                          IF max_priority_fee = << >> THEN <<0>> ELSE max_priority_fee,
                          self.gas_limit,
                          IF self.access_list # << >> THEN self.access_list[1] ELSE << >>)>>
     ELSE << >>

\* The arguments and the result of into_transaction_v2, before a call.
NoXcm ==
  [self     |-> CHOOSE t \in EthereumXcmTransactionV1 : TRUE,
   base_fee |-> 0, nonce |-> 0, out |-> << >>]

\* The arguments and the locals of filter_logs, before a call.
\* conn: the task holds a connection of the pool; handler: the progress
\* handler is installed on the connection the task holds or held last;
\* interrupted: the handler stopped the statement.
NoFilter ==
  [from_block |-> 0, to_block |-> 0, addresses |-> << >>, topics |-> << >>,
   unique_topics |-> EmptyTopics, sql |-> << >>, arguments |-> << >>,
   out |-> << >>, conn |-> FALSE, handler |-> FALSE, interrupted |-> FALSE]

\* The answers of the `client` argument about block 0: its hash resolves
\* (expect_block_hash_from_id), its header is there (client.header), the
\* runtime has the EthereumRuntimeRPCApi (has_api).
Clients == [genesis_hash : BOOLEAN, genesis_header : BOOLEAN, has_api : BOOLEAN]

\* The client of a chain that has the API from genesis.
FullClient == [genesis_hash |-> TRUE, genesis_header |-> TRUE, has_api |-> TRUE]

Idle ==
  [op |-> "none", pc |-> "idle", hashes |-> << >>, retracted |-> {},
   enacted |-> {}, max_pending_blocks |-> 0, block_metadata |-> << >>,
   block_hashes |-> {}, logs |-> {}, fl |-> NoFilter, key |-> NoHash,
   metadata |-> {}, client |-> FullClient, some |-> FALSE, xcm |-> NoXcm,
   ret |-> "none"]

\* The hashes arguments of insert_block_metadata.
Batches == UNION {[1..n -> Hashes] : n \in 0..MaxBatchLen}

\* The hash whose latest canonicalize call the history keeps.
TrackedHash == "h1"

NoFlip == [stage |-> 0, X |-> {}, before |-> {}]

Init ==
  /\ db = EmptyDb
  /\ tx = EmptyDb
  /\ writer = NoTask
  /\ task = [p \in Tasks |-> Idle]
  /\ chain = [canon1 |-> NoHash]
  /\ calls = 0
  /\ hist = [rec    |-> FALSE,
             claims |-> [h \in Hashes |-> 0],
             flip   |-> NoFlip,
             last   |-> "none"]

\* The same, with the canonicalize calls recorded in the history.
InitHist ==
  /\ db = EmptyDb
  /\ tx = EmptyDb
  /\ writer = NoTask
  /\ task = [p \in Tasks |-> Idle]
  /\ chain = [canon1 |-> NoHash]
  /\ calls = 0
  /\ hist = [rec    |-> TRUE,
             claims |-> [h \in Hashes |-> 0],
             flip   |-> NoFlip,
             last   |-> "none"]

\* The batches of a call of insert_block_metadata that is under way when the
\* behaviour starts: among the hashes, one with no header, one whose digest
\* carries two logs and one at a height that has no canonical hash.
IngestBatches ==
  UNION {[1..n -> Hashes \cup {UnknownHash, TwoLogsHash, "h3"}] : n \in 1..MaxBatchLen}

\* insert_block_metadata has been called by t1, with a batch of IngestBatches.
InitIngest ==
  /\ db = EmptyDb
  /\ tx = EmptyDb
  /\ writer = NoTask
  /\ \E hashes \in IngestBatches :
       task = [p \in Tasks |->
                 IF p = "t1"
                 THEN [Idle EXCEPT !.op = "insert_block_metadata",
                                   !.pc = "ibm_inner", !.hashes = hashes]
                 ELSE Idle]
  /\ \E h \in {NoHash, "h1", "h2"} : chain = [canon1 |-> h]
  /\ calls = 1
  /\ hist = [rec    |-> FALSE,
             claims |-> [h \in Hashes |-> 0],
             flip   |-> NoFlip,
             last   |-> "none"]

\* The store a statement of task p works on, and the lock it needs: a deferred
\* transaction takes the write lock at its first write statement.
CanWrite(p) == writer \in {NoTask, p}
Cur(p) == IF writer = p THEN tx ELSE db

\* The committed store after a transaction is dropped without commit.
AfterDropKeepsWrites(p) == Cur(p)

AfterDrop(p) == db

Finish(p, r) == [task EXCEPT ![p].pc = "done", ![p].ret = r]

\* Task p's transaction ends in an error: it is rolled back, the lock released.
Abort(p, r) ==
  /\ db' = AfterDrop(p)
  /\ tx' = IF writer = p THEN db' ELSE tx
  /\ writer' = IF writer = p THEN NoTask ELSE writer
  /\ task' = Finish(p, r)
  /\ UNCHANGED <<chain, calls, hist>>

\* A caller starts an operation on an idle task.
Start(p, t) ==
  /\ calls < MaxCalls
  /\ calls' = calls + 1
  /\ task' = [task EXCEPT ![p] = t]
  /\ UNCHANGED <<db, tx, writer, chain, hist>>

(***************************************************************************)
(* insert_block_metadata(client, hashes)                                   *)
(***************************************************************************)
CallInsertBlockMetadata(p) ==
  \E hashes \in Batches :
    /\ task[p].pc = "idle"
    /\ Start(p, [Idle EXCEPT !.op = "insert_block_metadata", !.pc = "ibm_inner",
                             !.hashes = hashes])

\* spawn_blocking(insert_block_metadata_inner)
IbmInner(p) ==
  /\ task[p].pc = "ibm_inner"
  /\ LET r == insert_block_metadata_inner(chain, task[p].hashes) IN
       task' = IF r.ok
               THEN [task EXCEPT ![p].pc = "ibm_blocks", ![p].block_metadata = r.out]
               ELSE Finish(p, "err_protocol")
  /\ UNCHANGED <<db, tx, writer, chain, calls, hist>>

\* begin, then the INSERT OR IGNOREs of every block and its transactions
IbmBlocks(p) ==
  /\ task[p].pc = "ibm_blocks"
  /\ IF task[p].block_metadata = << >>
     THEN UNCHANGED <<tx, writer>>
     ELSE /\ CanWrite(p)
          /\ writer' = p
          /\ tx' = InsertBlocks(Cur(p), task[p].block_metadata)
  /\ task' = [task EXCEPT ![p].pc = "ibm_sync"]
  /\ UNCHANGED <<db, chain, calls, hist>>

\* the INSERT INTO sync_status of all the hashes
IbmSync(p) ==
  /\ task[p].pc = "ibm_sync"
  /\ CanWrite(p) \/ task[p].hashes = << >>
  /\ LET r == InsertSyncStatus(Cur(p), task[p].hashes) IN
       IF r.ok
       THEN /\ writer' = p
            /\ tx' = r.db
            /\ task' = [task EXCEPT ![p].pc = "commit"]
            /\ UNCHANGED <<db, chain, calls, hist>>
       ELSE Abort(p, r.err)

(***************************************************************************)
(* canonicalize(retracted, enacted)                                        *)
(***************************************************************************)
CallCanonicalize(p) ==
  \E retracted \in SUBSET Hashes, enacted \in SUBSET Hashes :
    /\ task[p].pc = "idle"
    /\ Start(p, [Idle EXCEPT !.op = "canonicalize", !.pc = "can_retract",
                             !.retracted = retracted, !.enacted = enacted])

\* The retracting UPDATE executed on the pool: a transaction of its own.
CanRetractOnPool(p) ==
  /\ task[p].pc = "can_retract"
  /\ writer = NoTask
  /\ db' = UpdateIsCanon(db, task[p].retracted, 0)
  /\ tx' = db'
  /\ task' = [task EXCEPT ![p].pc = "can_enact"]
  /\ UNCHANGED <<writer, chain, calls, hist>>

\* begin, then UPDATE blocks SET is_canon = 0 WHERE substrate_block_hash IN (..)
CanRetract(p) ==
  /\ task[p].pc = "can_retract"
  /\ CanWrite(p)
  /\ writer' = p
  /\ tx' = UpdateIsCanon(Cur(p), task[p].retracted, 0)
  /\ task' = [task EXCEPT ![p].pc = "can_enact"]
  /\ UNCHANGED <<db, chain, calls, hist>>

\* UPDATE blocks SET is_canon = 1 WHERE substrate_block_hash IN (..)
CanEnact(p) ==
  /\ task[p].pc = "can_enact"
  /\ writer = p
  /\ tx' = UpdateIsCanon(tx, task[p].enacted, 1)
  /\ task' = [task EXCEPT ![p].pc = "commit"]
  /\ UNCHANGED <<db, writer, chain, calls, hist>>

(***************************************************************************)
(* index_pending_block_logs(client, max_pending_blocks)                    *)
(***************************************************************************)
CallIndexPendingBlockLogs(p) ==
  \E n \in 0..MaxPending :
    /\ task[p].pc = "idle"
    /\ Start(p, [Idle EXCEPT !.op = "index_pending_block_logs", !.pc = "ipl_claim",
                             !.max_pending_blocks = n])

\* begin, then UPDATE sync_status SET status = 1 WHERE substrate_block_hash IN
\* (SELECT ... WHERE status = 0 LIMIT n) RETURNING substrate_block_hash
IplClaim(p) ==
  /\ task[p].pc = "ipl_claim"
  /\ CanWrite(p)
  /\ \E S \in SelectPendingLimit(Cur(p), task[p].max_pending_blocks) :
       /\ tx' = UpdateSyncStatusClaimed(Cur(p), S)
       /\ task' = [task EXCEPT ![p].pc = "ipl_get_logs", ![p].block_hashes = S]
  /\ writer' = p
  /\ UNCHANGED <<db, chain, calls, hist>>

\* spawn_blocking(get_logs)
IplGetLogs(p) ==
  /\ task[p].pc = "ipl_get_logs"
  /\ task' = [task EXCEPT ![p].pc = "ipl_insert",
                          ![p].logs = get_logs(task[p].block_hashes)]
  /\ UNCHANGED <<db, tx, writer, chain, calls, hist>>

\* the INSERT OR IGNORE INTO logs of every log
IplInsert(p) ==
  /\ task[p].pc = "ipl_insert"
  /\ writer = p
  /\ tx' = InsertLogs(tx, task[p].logs)
  /\ task' = [task EXCEPT ![p].pc = "commit"]
  /\ UNCHANGED <<db, writer, chain, calls, hist>>

(***************************************************************************)
(* insert_genesis_block_metadata(client)                                   *)
(***************************************************************************)
GenesisRow ==
  [ethereum_block_hash     |-> "e0",
   substrate_block_hash    |-> "h0",
   block_number            |-> 0,
   ethereum_storage_schema |-> onchain_storage_schema("h0"),
   is_canon                |-> 1]

CallInsertGenesisBlockMetadata(p) ==
  /\ task[p].pc = "idle"
  /\ Start(p, [Idle EXCEPT !.op = "insert_genesis_block_metadata",
                           !.pc = "gen_insert"])

\* maybe_substrate_hash is Some(substrate_genesis_hash): the header of block
\* 0 is there, whatever has_api is.
GenesisSome(c) == c.genesis_header

\* expect_block_hash_from_id, client.header, has_api, then the one INSERT OR
\* IGNORE, executed on the pool: its own transaction.
GenInsert(p) ==
  /\ task[p].pc = "gen_insert"
  /\ LET c == task[p].client IN
       IF ~c.genesis_hash
       THEN /\ task' = Finish(p, "err_protocol")
            /\ UNCHANGED <<db, tx, hist>>
       ELSE IF HasHeader("h0") /\ c.genesis_header /\ c.has_api
       THEN /\ writer = NoTask
            /\ db' = InsertOrIgnoreBlock(db, GenesisRow)
            /\ tx' = db'
            /\ task' = [Finish(p, "ok") EXCEPT ![p].some = GenesisSome(c)]
            /\ hist' = [hist EXCEPT !.flip = NoFlip]
       ELSE /\ task' = [Finish(p, "ok") EXCEPT ![p].some = GenesisSome(c)]
            /\ UNCHANGED <<db, tx, hist>>
  /\ UNCHANGED <<writer, chain, calls>>

(***************************************************************************)
(* BackendReader::block_hash(ethereum_block_hash)                          *)
(***************************************************************************)
EthHashes == {"e0", "e1", "e2"}

\* SELECT substrate_block_hash FROM blocks WHERE ethereum_block_hash = ?
\* AND is_canon = 1
SelectCanonBlockHash(d, e) ==
  {r.substrate_block_hash :
     r \in {b \in d.blocks : b.ethereum_block_hash = e /\ b.is_canon = 1}}

\* SELECT substrate_block_hash FROM blocks WHERE ethereum_block_hash = ?
SelectBlockHash(d, e) ==
  {r.substrate_block_hash : r \in {b \in d.blocks : b.ethereum_block_hash = e}}

\* A blob that is not of 32 bytes.
ShortBlob == "short"

\* H256::from_slice(&blob[..]) returns: the slice has 32 bytes. It panics on
\* every other slice, the empty one of unwrap_or_default included.
IsH256(blob) == blob # ShortBlob

\* The SELECT as DELETE FROM blocks WHERE ethereum_block_hash = ? RETURNING
\* substrate_block_hash.
block_hash_deleting(p) ==
  \E e \in EthHashes :
    /\ task[p].pc = "idle"
    /\ calls < MaxCalls
    /\ writer = NoTask
    /\ calls' = calls + 1
    /\ task' = [task EXCEPT ![p] =
                  [Idle EXCEPT !.op = "block_hash", !.pc = "done", !.ret = "ok",
                               !.key = e, !.block_hashes = SelectBlockHash(db, e)]]
    /\ db' = [db EXCEPT !.blocks = {b \in @ : b.ethereum_block_hash # e}]
    /\ tx' = db'
    /\ UNCHANGED <<writer, chain, hist>>

\* The one SELECT, fetched on the pool: it reads the committed store, also
\* while another task's transaction is open. Ok(Some(hashes)), or the panic of
\* from_slice at a blob that is not of 32 bytes.
block_hash(p) ==
  \E e \in EthHashes :
    /\ task[p].pc = "idle"
    /\ Start(p, IF \A h \in SelectBlockHash(db, e) : IsH256(h)
                THEN [Idle EXCEPT !.op = "block_hash", !.pc = "done", !.ret = "ok",
                                  !.key = e, !.block_hashes = SelectBlockHash(db, e)]
                ELSE [Idle EXCEPT !.op = "block_hash", !.pc = "done",
                                  !.ret = "panic", !.key = e])

\* fetch_all is Err: .ok() is None and block_hash returns Ok(None)
block_hash_none(p) ==
  \E e \in EthHashes :
    /\ task[p].pc = "idle"
    /\ Start(p, [Idle EXCEPT !.op = "block_hash", !.pc = "done", !.ret = "ok_none",
                             !.key = e])

(***************************************************************************)
(* BackendReader::transaction_metadata(ethereum_transaction_hash)          *)
(***************************************************************************)
TransactionHashes == {"x1", "x3", "x9"}

\* SELECT substrate_block_hash, ethereum_block_hash,
\* ethereum_transaction_index FROM transactions
\* WHERE ethereum_transaction_hash = ?
SelectTransactions(d, t) == {r \in d.transactions : r.ethereum_transaction_hash = t}

\* struct TransactionMetadata, from a row
TransactionMetadata(r) ==
  [block_hash          |-> r.substrate_block_hash,
   ethereum_block_hash |-> r.ethereum_block_hash,
   ethereum_index      |-> r.ethereum_transaction_index]

\* The one SELECT, fetched on the pool. Ok(entries), or the panic of
\* from_slice at a blob that is not of 32 bytes.
transaction_metadata(p) ==
  \E t \in TransactionHashes :
    /\ task[p].pc = "idle"
    /\ Start(p, IF \A r \in SelectTransactions(db, t) :
                     IsH256(r.substrate_block_hash) /\ IsH256(r.ethereum_block_hash)
                THEN [Idle EXCEPT !.op = "transaction_metadata", !.pc = "done",
                                  !.ret = "ok", !.key = t,
                                  !.metadata = {TransactionMetadata(r) :
                                                  r \in SelectTransactions(db, t)}]
                ELSE [Idle EXCEPT !.op = "transaction_metadata", !.pc = "done",
                                  !.ret = "panic", !.key = t])

\* fetch_all is Err: unwrap_or_default() is the empty Vec, Ok(vec![])
transaction_metadata_default(p) ==
  \E t \in TransactionHashes :
    /\ task[p].pc = "idle"
    /\ Start(p, [Idle EXCEPT !.op = "transaction_metadata", !.pc = "done",
                             !.ret = "ok_default", !.key = t])

ReadStep(p) ==
  \/ block_hash(p)
  \/ block_hash_none(p)
  \/ transaction_metadata(p)
  \/ transaction_metadata_default(p)

(***************************************************************************)
(* into_transaction_v2(base_fee, nonce)                                    *)
(***************************************************************************)
\* The nonce arguments.
Nonces == {0, U256Max}

CallIntoTransactionV2(p) ==
  \E self \in EthereumXcmTransactionV1, base_fee \in U256, nonce \in Nonces :
    /\ task[p].pc = "idle"
    /\ Start(p, [Idle EXCEPT !.op = "into_transaction_v2", !.pc = "xcm_convert",
                             !.xcm = [self |-> self, base_fee |-> base_fee,
                                      nonce |-> nonce, out |-> << >>]])

XcmConvert(p) ==
  /\ task[p].pc = "xcm_convert"
  /\ task' = [task EXCEPT
                ![p].pc = "done",
                ![p].ret = "ok",
                ![p].xcm.out = into_transaction_v2(task[p].xcm.self,
                                                   task[p].xcm.base_fee,
                                                   task[p].xcm.nonce)]
  /\ UNCHANGED <<db, tx, writer, chain, calls, hist>>

XcmStep(p) ==
  \/ CallIntoTransactionV2(p)
  \/ XcmConvert(p)

(***************************************************************************)
(* BackendReader::filter_logs(from_block, to_block, addresses, topics)     *)
(***************************************************************************)
\* Longest `addresses` argument.
MaxAddresses == 2
\* Longest row of `topics`: one position more than are allowed.
MaxTopicLen == 5
\* Longest row of `topics` in the requests that vary the values of the rows.
MaxMatchLen == 2

Addresses == {"alice", "bob"}

AddressLists == UNION {[1..n -> Addresses] : n \in 0..MaxAddresses}

TopicOptions == {None, "ta", "tb", ZeroHash}

TopicRows(options, len) == UNION {[1..n -> options] : n \in 0..len}

\* No row, one row or two rows.
TopicLists(rows) ==
  {<< >>} \cup {<<a>> : a \in rows} \cup {<<a, b>> : a \in rows, b \in rows}

Request(f, t, a, tp) ==
  [NoFilter EXCEPT !.from_block = f, !.to_block = t, !.addresses = a, !.topics = tp]

\* Every pair of bounds, with no addresses and no topics.
RangeRequests == {Request(f, t, << >>, << >>) : f \in U64, t \in U64}

\* Every list of addresses, for the blocks of all heights.
AddressRequests ==
  {Request(0, 2^(BlockBits - 1) - 1, a, << >>) : a \in AddressLists}

\* Rows of every value in the first positions, for the blocks of all heights.
MatchRequests ==
  {Request(0, 2^(BlockBits - 1) - 1, a, tp) :
     a \in {<< >>, <<"alice">>},
     tp \in TopicLists(TopicRows(TopicOptions, MaxMatchLen))}

\* Rows of every length, also longer than MAX_TOPIC_COUNT.
ArityRequests ==
  {Request(0, 2^(BlockBits - 1) - 1, << >>, tp) :
     tp \in TopicLists(TopicRows({None, "ta"}, MaxTopicLen))}

CallFilterLogs(p) ==
  \E r \in RangeRequests \cup AddressRequests \cup MatchRequests \cup ArityRequests :
    /\ task[p].pc = "idle"
    /\ Start(p, [Idle EXCEPT !.op = "filter_logs", !.pc = "fl_topics", !.fl = r])

\* the loop over topics that fills unique_topics, or returns the Err
FlTopics(p) ==
  /\ task[p].pc = "fl_topics"
  /\ LET r == UniqueTopics(EmptyTopics, task[p].fl.topics) IN
       task' = IF r.ok
               THEN [task EXCEPT ![p].pc = "fl_build", ![p].fl.unique_topics = r.out]
               ELSE Finish(p, "err_invalid_topic")
  /\ UNCHANGED <<db, tx, writer, chain, calls, hist>>

\* build_query(&mut qb, from_block, to_block, addresses, unique_topics)
FlBuild(p) ==
  /\ task[p].pc = "fl_build"
  /\ \E o1 \in Orders(task[p].fl.unique_topics[1]),
        o2 \in Orders(task[p].fl.unique_topics[2]),
        o3 \in Orders(task[p].fl.unique_topics[3]),
        o4 \in Orders(task[p].fl.unique_topics[4]) :
       LET q == build_query(task[p].fl.from_block, task[p].fl.to_block,
                            task[p].fl.addresses, <<o1, o2, o3, o4>>)
       IN task' = [task EXCEPT ![p].pc = "fl_acquire", ![p].fl.sql = q.sql,
                                ![p].fl.arguments = q.arguments]
  /\ UNCHANGED <<db, tx, writer, chain, calls, hist>>

\* self.pool().acquire().await is Ok(conn)
FlAcquire(p) ==
  /\ task[p].pc = "fl_acquire"
  /\ task' = [task EXCEPT ![p].pc = "fl_handler", ![p].fl.conn = TRUE]
  /\ UNCHANGED <<db, tx, writer, chain, calls, hist>>

\* self.pool().acquire().await is Err: `?` returns it
FlAcquireFail(p) ==
  /\ task[p].pc = "fl_acquire"
  /\ task' = Finish(p, "err_acquire")
  /\ UNCHANGED <<db, tx, writer, chain, calls, hist>>

\* conn.set_progress_handler(self.num_ops_timeout, || false)
FlSetHandler(p) ==
  /\ task[p].pc = "fl_handler"
  /\ task' = [task EXCEPT ![p].pc = "fl_fetch", ![p].fl.handler = TRUE]
  /\ UNCHANGED <<db, tx, writer, chain, calls, hist>>

\* The blobs Decode::decode reads as an EthereumStorageSchema.
Schemas == {"Undefined", "V1", "V2", "V3"}

\* The index of the first row whose ethereum_storage_schema does not decode,
\* or 0.
RECURSIVE FirstUndecodable(_, _)
FirstUndecodable(rows, k) ==
  IF k > Len(rows) THEN 0
  ELSE IF rows[k].ethereum_storage_schema \notin Schemas THEN k
  ELSE FirstUndecodable(rows, k + 1)

\* The loop over rows.try_next() for the rows the query yields: every row is
\* decoded and pushed, then the handler is removed and Ok(out) returned; at a
\* row whose schema does not decode `?` returns the Err at once, and the
\* connection is dropped as it is.
Fetched(p, rows) ==
  LET k == FirstUndecodable(rows, 1) IN
  IF k = 0
  THEN [task EXCEPT ![p].pc = "done", ![p].ret = "ok", ![p].fl.out = rows,
                    ![p].fl.conn = FALSE, ![p].fl.handler = FALSE]
  ELSE [task EXCEPT ![p].pc = "done", ![p].ret = "err_decode",
                    ![p].fl.conn = FALSE]

\* query.fetch(&mut conn) to Ok(None): the rows, read from the committed store
FlFetch(p) ==
  /\ task[p].pc = "fl_fetch"
  /\ \E out \in QueryResults(db, task[p].fl) : task' = Fetched(p, out)
  /\ UNCHANGED <<db, tx, writer, chain, calls, hist>>

\* Err("Failed to query sql db with statement")
QueryError == "err_query"

\* rows.try_next() is Err(err): break Some(err), drop(rows),
\* remove_progress_handler, return Err
Failed(p, interrupted) ==
  [task EXCEPT ![p].pc = "done", ![p].ret = QueryError,
               ![p].fl.conn = FALSE, ![p].fl.handler = FALSE,
               ![p].fl.interrupted = interrupted]

\* The handler is called after num_ops_timeout steps of the statement and
\* returns false: the engine interrupts the statement, try_next is Err.
FlInterrupt(p) ==
  /\ task[p].pc = "fl_fetch"
  /\ task' = Failed(p, TRUE)
  /\ UNCHANGED <<db, tx, writer, chain, calls, hist>>

\* rows.try_next() is Err for another reason (I/O, busy)
FlFail(p) ==
  /\ task[p].pc = "fl_fetch"
  /\ task' = Failed(p, FALSE)
  /\ UNCHANGED <<db, tx, writer, chain, calls, hist>>

FilterStep(p) ==
  \/ FlTopics(p)
  \/ FlBuild(p)
  \/ FlAcquire(p)
  \/ FlAcquireFail(p)
  \/ FlSetHandler(p)
  \/ FlFetch(p)
  \/ FlInterrupt(p)
  \/ FlFail(p)

(***************************************************************************)
(* Commit, failure and return.                                             *)
(***************************************************************************)
\* What the history records of task p's commit.
Committed(p) ==
  LET t == task[p] IN
  CASE t.op = "insert_block_metadata" ->
         [hist EXCEPT !.flip = NoFlip]
    [] t.op = "index_pending_block_logs" ->
         [hist EXCEPT !.claims = [h \in Hashes |->
                                    IF h \in t.block_hashes THEN @[h] + 1 ELSE @[h]],
                      !.flip = NoFlip]
    [] t.op = "canonicalize" /\ ~hist.rec -> hist
    [] OTHER ->
         [hist EXCEPT
            !.last = IF TrackedHash \in t.enacted THEN "enacted"
                     ELSE IF TrackedHash \in t.retracted THEN "retracted" ELSE @,
            !.flip = IF @.stage = 1 /\ t.retracted = {} /\ t.enacted = @.X
                     THEN [@ EXCEPT !.stage = 2]
                     ELSE IF t.enacted = {}
                     THEN [stage |-> 1, X |-> t.retracted, before |-> db.blocks]
                     ELSE NoFlip]

\* tx.commit()
Commit(p) ==
  /\ task[p].pc = "commit"
  /\ writer = p
  /\ db' = tx
  /\ tx' = tx
  /\ writer' = NoTask
  /\ task' = Finish(p, "ok")
  /\ hist' = Committed(p)
  /\ UNCHANGED <<chain, calls>>

StatementPcs ==
  {"ibm_blocks", "ibm_sync", "can_retract", "can_enact", "ipl_claim",
   "ipl_insert", "commit", "gen_insert"}

WorkerPcs == {"ibm_inner", "ipl_get_logs"}

\* A statement fails in the engine (busy after the timeout, I/O), or the
\* blocking worker fails: `?` returns the error and drops the transaction.
Fail(p) ==
  /\ task[p].pc \in StatementPcs \cup WorkerPcs
  /\ Abort(p, IF task[p].pc \in WorkerPcs THEN "err_protocol" ELSE "err_db")

\* The call returns to its caller.
Return(p) ==
  /\ task[p].pc = "done"
  /\ task' = [task EXCEPT ![p] = Idle]
  /\ UNCHANGED <<db, tx, writer, chain, calls, hist>>

\* The chain reorganizes: another fork (or none yet) is canonical at height 1.
ChainReorg ==
  /\ \E h \in {NoHash, "h1", "h2"} \ {chain.canon1} :
       chain' = [chain EXCEPT !.canon1 = h]
  /\ UNCHANGED <<db, tx, writer, task, calls, hist>>

MetadataStep(p) ==
  \/ CallInsertBlockMetadata(p)
  \/ IbmInner(p)
  \/ IbmBlocks(p)
  \/ IbmSync(p)

CanonicalizeStep(p) ==
  \/ CallCanonicalize(p)
  \/ CanRetract(p)
  \/ CanEnact(p)

IndexStep(p) ==
  \/ CallIndexPendingBlockLogs(p)
  \/ IplClaim(p)
  \/ IplGetLogs(p)
  \/ IplInsert(p)

GenesisStep(p) ==
  \/ CallInsertGenesisBlockMetadata(p)
  \/ GenInsert(p)

EndStep(p) ==
  \/ Commit(p)
  \/ Fail(p)
  \/ Return(p)

Next ==
  \/ \E p \in Tasks :
       \/ MetadataStep(p)
       \/ CanonicalizeStep(p)
       \/ IndexStep(p)
       \/ GenesisStep(p)
       \/ ReadStep(p)
       \/ XcmStep(p)
       \/ CallFilterLogs(p)
       \/ FilterStep(p)
       \/ EndStep(p)
  \/ ChainReorg

\* Every operation, called from every task.
Spec == Init /\ [][Next]_vars

\* Every write operation called from one task, one call after the other,
\* while the chain reorganizes and a second task reads.
NextCanon ==
  \/ MetadataStep("t1")
  \/ CanonicalizeStep("t1")
  \/ GenesisStep("t1")
  \/ IndexStep("t1")
  \/ EndStep("t1")
  \/ block_hash("t2")
  \/ Return("t2")
  \/ ChainReorg

SpecCanon == Init /\ [][NextCanon]_vars

\* insert_block_metadata and canonicalize called from one task, one call after
\* the other, while the chain reorganizes; the canonicalize calls are recorded.
NextHist ==
  \/ MetadataStep("t1")
  \/ CanonicalizeStep("t1")
  \/ EndStep("t1")
  \/ ChainReorg

SpecHist == InitHist /\ [][NextHist]_vars

\* Calls of index_pending_block_logs from two tasks at once, while one of them
\* also queues blocks with insert_block_metadata.
NextIndex ==
  \/ MetadataStep("t1")
  \/ \E p \in Tasks :
       \/ IndexStep(p)
       \/ EndStep(p)

SpecIndex == Init /\ [][NextIndex]_vars

\* The call of insert_block_metadata that is under way, and after it calls of
\* index_pending_block_logs from two tasks.
NextIngest ==
  \/ IbmInner("t1")
  \/ IbmBlocks("t1")
  \/ IbmSync("t1")
  \/ \E p \in Tasks :
       \/ IndexStep(p)
       \/ EndStep(p)

SpecIngest == InitIngest /\ [][NextIngest]_vars

\* The batches of SpecPruned: blocks whose state can be read and a block whose
\* state cannot.
PrunedBatches ==
  UNION {[1..n -> {"h1", "h3", PrunedHash}] : n \in 1..MaxBatchLen}

\* insert_block_metadata has been called by t1, with a batch of PrunedBatches.
InitPruned ==
  /\ db = EmptyDb
  /\ tx = EmptyDb
  /\ writer = NoTask
  /\ \E hashes \in PrunedBatches :
       task = [p \in Tasks |->
                 IF p = "t1"
                 THEN [Idle EXCEPT !.op = "insert_block_metadata",
                                   !.pc = "ibm_inner", !.hashes = hashes]
                 ELSE Idle]
  /\ \E h \in {NoHash, "h1"} : chain = [canon1 |-> h]
  /\ calls = 1
  /\ hist = [rec    |-> FALSE,
             claims |-> [h \in Hashes |-> 0],
             flip   |-> NoFlip,
             last   |-> "none"]

\* The same steps as SpecIngest, on these batches.
SpecPruned == InitPruned /\ [][NextIngest]_vars

\* The store after insert_block_metadata(hashes) with h1 canonical, a pass of
\* index_pending_block_logs that claims every block queued, and
\* canonicalize(retracted, enacted).
StoreAfter(hashes, retracted, enacted) ==
  LET m  == insert_block_metadata_inner([canon1 |-> "h1"], hashes).out
      d1 == InsertSyncStatus(InsertBlocks(EmptyDb, m), hashes).db
      S  == SelectPending(d1)
      d2 == InsertLogs(UpdateSyncStatusClaimed(d1, S), get_logs(S))
  IN UpdateIsCanon(UpdateIsCanon(d2, retracted, 0), enacted, 1)

\* The stores filter_logs is run on: the blocks h1, h2 and h3 with their logs,
\* canonical in every combination, by the hashes retracted and enacted.
FilterStores ==
  [R \in SUBSET {"h1"}, E \in SUBSET {"h2", "h3"} |->
     StoreAfter(<<"h1", "h2", "h3">>, R, E)]

\* The store d with a blob that is no encoding of a schema in the blocks row
\* of h3: a database file that another version of the node has written.
WithUnknownSchema(d) ==
  [d EXCEPT !.blocks = {IF b.substrate_block_hash = "h3"
                        THEN [b EXCEPT !.ethereum_storage_schema = "V9"]
                        ELSE b : b \in d.blocks}]

\* The store d with a blocks row and a transactions row whose
\* substrate_block_hash is a blob that is not of 32 bytes: a database file
\* that was damaged or written by another program.
WithShortBlob(d) ==
  [d EXCEPT !.blocks = @ \cup
              {[ethereum_block_hash     |-> "e2",
                substrate_block_hash    |-> ShortBlob,
                block_number            |-> 2,
                ethereum_storage_schema |-> "V3",
                is_canon                |-> 0]},
            !.transactions = @ \cup
              {[ethereum_transaction_hash  |-> "x9",
                substrate_block_hash       |-> ShortBlob,
                ethereum_block_hash        |-> "e2",
                ethereum_transaction_index |-> 0]}]

\* canonicalize({h1}, {h2}) under way.
Canonicalizing ==
  [Idle EXCEPT !.op = "canonicalize", !.pc = "can_retract",
               !.retracted = {"h1"}, !.enacted = {"h2"}]

\* A store, a call of filter_logs made by t2 and what t1 runs meanwhile:
\* nothing, or canonicalize({h1}, {h2}). The requests that vary the range or
\* the addresses run on every store, those that vary the topics on the stores with h2 and h3
\* canonical.
FilterCases ==
  {[retracted |-> R, enacted |-> E, t1 |-> Idle, fl |-> r] :
     R \in SUBSET {"h1"}, E \in SUBSET {"h2", "h3"},
     r \in RangeRequests \cup AddressRequests}
  \cup
  {[retracted |-> R, enacted |-> {"h2", "h3"}, t1 |-> Idle, fl |-> r] :
     R \in SUBSET {"h1"}, r \in MatchRequests}
  \cup
  {[retracted |-> {}, enacted |-> {"h3"}, t1 |-> Idle, fl |-> r] :
     r \in ArityRequests}
  \cup
  {[retracted |-> {}, enacted |-> {"h3"}, t1 |-> Canonicalizing,
    fl |-> Request(0, 2^(BlockBits - 1) - 1, << >>, << >>)]}

\* The requests run on the store with the blob that is no schema.
UnknownSchemaRequests ==
  {Request(f, 2^(BlockBits - 1) - 1, a, << >>) :
     f \in 0..HeaderNumber("h3"), a \in {<< >>, <<"alice">>}}

InitFilter ==
  /\ \/ \E c \in FilterCases :
          /\ db = FilterStores[c.retracted, c.enacted]
          /\ task = [p \in Tasks |->
                       IF p = "t1" THEN c.t1
                       ELSE [Idle EXCEPT !.op = "filter_logs", !.pc = "fl_topics",
                                         !.fl = c.fl]]
     \/ \E r \in UnknownSchemaRequests :
          /\ db = WithUnknownSchema(FilterStores[{}, {"h2", "h3"}])
          /\ task = [p \in Tasks |->
                       IF p = "t1" THEN Idle
                       ELSE [Idle EXCEPT !.op = "filter_logs", !.pc = "fl_topics",
                                         !.fl = r]]
  /\ tx = db
  /\ writer = NoTask
  /\ chain = [canon1 |-> "h1"]
  /\ calls = 2
  /\ hist = [rec    |-> FALSE,
             claims |-> [h \in Hashes |-> 0],
             flip   |-> NoFlip,
             last   |-> "none"]

\* The call of insert_genesis_block_metadata that is under way, with a client
\* of every kind, on a store with the genesis row or without it, while the
\* other task inserts block metadata.
InitGenesis ==
  /\ db \in {EmptyDb, InsertOrIgnoreBlock(EmptyDb, GenesisRow)}
  /\ tx = db
  /\ writer = NoTask
  /\ \E c \in Clients :
       task = [p \in Tasks |->
                 IF p = "t1"
                 THEN [Idle EXCEPT !.op = "insert_genesis_block_metadata",
                                   !.pc = "gen_insert", !.client = c]
                 ELSE Idle]
  /\ chain = [canon1 |-> "h1"]
  /\ calls = 1
  /\ hist = [rec    |-> FALSE,
             claims |-> [h \in Hashes |-> 0],
             flip   |-> NoFlip,
             last   |-> "none"]

NextGenesis ==
  \/ GenInsert("t1")
  \/ EndStep("t1")
  \/ MetadataStep("t2")
  \/ EndStep("t2")

SpecGenesis == InitGenesis /\ [][NextGenesis]_vars

\* The stores the readers are run on.
ReadStores ==
  {FilterStores[R, E] : R \in SUBSET {"h1"}, E \in SUBSET {"h2", "h3"}}
  \cup {WithUnknownSchema(FilterStores[{}, {"h2", "h3"}]),
        WithShortBlob(FilterStores[{}, {"h2", "h3"}])}

\* Calls of the readers from t2, a call of filter_logs being under way or
\* not, while t1 runs canonicalize({h1}, {h2}) or nothing.
InitRead ==
  /\ db \in ReadStores
  /\ tx = db
  /\ writer = NoTask
  /\ \E c \in {Idle, Canonicalizing} :
       \E r \in {NoFilter} \cup AddressRequests \cup UnknownSchemaRequests :
         task = [p \in Tasks |->
                   IF p = "t1" THEN c
                   ELSE IF r = NoFilter THEN Idle
                   ELSE [Idle EXCEPT !.op = "filter_logs", !.pc = "fl_topics",
                                     !.fl = r]]
  /\ chain = [canon1 |-> "h1"]
  /\ calls = 1
  /\ hist = [rec    |-> FALSE,
             claims |-> [h \in Hashes |-> 0],
             flip   |-> NoFlip,
             last   |-> "none"]

NextRead ==
  \/ ReadStep("t2")
  \/ FilterStep("t2")
  \/ Return("t2")
  \/ CanRetract("t1")
  \/ CanEnact("t1")
  \/ EndStep("t1")

SpecRead == InitRead /\ [][NextRead]_vars

\* Calls of into_transaction_v2, one after the other.
NextXcm ==
  \/ XcmStep("t1")
  \/ Return("t1")

SpecXcm == Init /\ [][NextXcm]_vars

\* The batches of SpecLive.
LiveBatches ==
  UNION {[1..n -> {"h1", PrunedHash}] : n \in 1..MaxBatchLen}

CallInsertLive(p) ==
  \E hashes \in LiveBatches :
    /\ task[p].pc = "idle"
    /\ Start(p, [Idle EXCEPT !.op = "insert_block_metadata", !.pc = "ibm_inner",
                             !.hashes = hashes])

\* The caller's loop: one more pass of index_pending_block_logs, with
\* max_pending_blocks >= 1. The passes are not counted among the calls.
RepeatIndexPendingBlockLogs(p) ==
  \E n \in 1..MaxPending :
    /\ task[p].pc = "idle"
    /\ task' = [task EXCEPT ![p] =
                  [Idle EXCEPT !.op = "index_pending_block_logs", !.pc = "ipl_claim",
                               !.max_pending_blocks = n]]
    /\ UNCHANGED <<db, tx, writer, chain, calls, hist>>

\* What t1 does once insert_block_metadata is called.
InsertRuns(p) ==
  \/ IbmInner(p)
  \/ IbmBlocks(p)
  \/ IbmSync(p)
  \/ EndStep(p)

\* t1 queues blocks with insert_block_metadata while t2 runs pass after pass
\* of index_pending_block_logs.
NextLive ==
  \/ CallInsertLive("t1")
  \/ InsertRuns("t1")
  \/ RepeatIndexPendingBlockLogs("t2")
  \/ IplClaim("t2")
  \/ IplGetLogs("t2")
  \/ IplInsert("t2")
  \/ EndStep("t2")

\* The runtime runs both tasks on; the index pass is called again and again,
\* and each of its database steps succeeds in the end (a step that can fail
\* time after time does not fail for ever).
SpecLive ==
  /\ Init
  /\ [][NextLive]_vars
  /\ WF_vars(InsertRuns("t1"))
  /\ WF_vars(RepeatIndexPendingBlockLogs("t2"))
  /\ WF_vars(Return("t2"))
  /\ SF_vars(IplClaim("t2"))
  /\ SF_vars(IplGetLogs("t2"))
  /\ SF_vars(IplInsert("t2"))
  /\ SF_vars(Commit("t2"))

\* The call of filter_logs that is under way, while t1 ends what it runs.
NextFilter ==
  \/ FilterStep("t2")
  \/ Return("t2")
  \/ CanRetract("t1")
  \/ CanEnact("t1")
  \/ EndStep("t1")

SpecFilter == InitFilter /\ [][NextFilter]_vars

(***************************************************************************)
(* Properties.                                                             *)
(***************************************************************************)
\* Task p's call of operation op ends in this step.
Ends(p, op) ==
  /\ task[p].op = op
  /\ task[p].pc # "done"
  /\ task'[p].pc = "done"

\* Task p's call of operation op commits in this step.
Commits(p, op) ==
  /\ task[p].op = op
  /\ task[p].pc = "commit"
  /\ task'[p].pc = "done"
  /\ task'[p].ret = "ok"

NoDuplicates(hashes) == Cardinality(SeqToSet(hashes)) = Len(hashes)

\* C1: running insert_block_metadata(H) again leaves the rows of the first run.
\* A run that succeeds leaves every hash of H queued, and a queued hash stays
\* queued; a run that finds every hash of H queued (a second run) changes no
\* row of any table; a run that fails (an empty H, a hash listed twice, a
\* hash already queued) leaves no row, and an empty H or a hash listed twice
\* fails every time, so a second run after a failed one fails the same way.
C1_ReplayLeavesRows ==
  [][/\ QueuedHashes(db) \subseteq QueuedHashes(db')
     /\ \A p \in Tasks :
          Ends(p, "insert_block_metadata") =>
            LET H == task[p].hashes IN
            /\ task'[p].ret = "ok" => SeqToSet(H) \subseteq QueuedHashes(db')
            /\ (H # << >> /\ SeqToSet(H) \subseteq QueuedHashes(db)) => db' = db
            /\ task'[p].ret # "ok" => db' = db
            /\ (H = << >> \/ ~NoDuplicates(H)) => task'[p].ret # "ok"]_vars

\* A second run of a batch ended: every hash of the batch was queued, with its
\* blocks row, and the run was refused on the sync_status key.
C1_Witness ==
  \E p \in Tasks :
    /\ task[p].op = "insert_block_metadata"
    /\ task[p].pc = "done"
    /\ task[p].ret = "err_unique"
    /\ Len(task[p].hashes) = 2
    /\ NoDuplicates(task[p].hashes)
    /\ SeqToSet(task[p].hashes) \subseteq QueuedHashes(db)
    /\ \E r \in db.blocks : r.substrate_block_hash \in SeqToSet(task[p].hashes)
    /\ \E r \in db.sync_status : r.status = 1

\* C2: insert_block_metadata ignores a duplicate key in sync_status: no call
\* ends with the error of the UNIQUE constraint.
C2_DuplicateKeyIgnored ==
  \A p \in Tasks :
    (task[p].op = "insert_block_metadata" /\ task[p].pc = "done")
      => task[p].ret # "err_unique"

LogKey(r) ==
  [substrate_block_hash |-> r.substrate_block_hash,
   transaction_index    |-> r.transaction_index,
   log_index            |-> r.log_index]

\* The keys of the logs in the receipts of the blocks S.
ReceiptLogKeys(S) ==
  {k \in [substrate_block_hash : S, transaction_index : 0..3, log_index : 0..3] :
     /\ k.transaction_index < Len(Receipts(k.substrate_block_hash))
     /\ k.log_index <
          Len(Receipts(k.substrate_block_hash)[k.transaction_index + 1])}

ClaimedHashes(d) ==
  {r.substrate_block_hash : r \in {s \in d.sync_status : s.status = 1}}

\* C3: whatever the interleaving of index_pending_block_logs calls, the
\* committed logs hold no two rows with the same (log_index,
\* transaction_index, substrate_block_hash), no call fails on that key, and
\* the rows are those of one sequential run: one row for every log of the
\* receipts of the claimed blocks and no other row.
C3_LogsAsOneRun ==
  /\ \A r \in BagToSet(db.logs) : CopiesIn(r, db.logs) = 1
  /\ \A r, s \in BagToSet(db.logs) : SameLogKey(r, s) => r = s
  /\ \A p \in Tasks :
       (task[p].op = "index_pending_block_logs" /\ task[p].pc = "done")
         => task[p].ret # "err_unique"
  /\ {LogKey(r) : r \in BagToSet(db.logs)} = ReceiptLogKeys(ClaimedHashes(db))

\* Two passes, run by two tasks, have both committed log rows.
C3_Witness ==
  /\ \A p \in Tasks :
       /\ task[p].op = "index_pending_block_logs"
       /\ task[p].pc = "done"
       /\ task[p].ret = "ok"
       /\ task[p].logs # {}
  /\ BagCardinality(db.logs) = 6

C5_CanonFlags ==
  [][\A p \in Tasks :
       Commits(p, "canonicalize") =>
         \A r \in db'.blocks :
           /\ r.substrate_block_hash \in task[p].enacted => r.is_canon = 1
           /\ r.substrate_block_hash \in task[p].retracted \ task[p].enacted
                => r.is_canon = 0]_vars

\* A canonicalize has committed whose lists share a hash with a blocks row,
\* next to a row that it only retracted.
C5_Witness ==
  \E p \in Tasks :
    /\ task[p].op = "canonicalize"
    /\ task[p].pc = "done"
    /\ task[p].ret = "ok"
    /\ \E r \in db.blocks :
         /\ r.substrate_block_hash \in task[p].retracted \cap task[p].enacted
         /\ r.is_canon = 1
    /\ \E r \in db.blocks :
         /\ r.substrate_block_hash \in task[p].retracted \ task[p].enacted
         /\ r.is_canon = 0

\* C6, as claimed: after canonicalize(X, {}) and then canonicalize({}, X) every
\* blocks row has the is_canon it had before the two calls.
C6_FlipRestores == hist.flip.stage = 2 => db.blocks = hist.flip.before

\* C6, amended: after canonicalize(X, {}) and then canonicalize({}, X) every
\* blocks row of a hash of X has is_canon = 1 and every other row is as before
\* the two calls.
C6_FlipEnacts ==
  hist.flip.stage = 2 =>
    db.blocks =
      {IF r.substrate_block_hash \in hist.flip.X THEN [r EXCEPT !.is_canon = 1] ELSE r :
         r \in hist.flip.before}

\* The two calls have committed, for an X that holds a row that was not
\* canonical before, next to a row outside X.
C6_Witness ==
  /\ hist.flip.stage = 2
  /\ \E r \in hist.flip.before :
       r.substrate_block_hash \in hist.flip.X /\ r.is_canon = 0
  /\ \E r \in hist.flip.before :
       r.substrate_block_hash \notin hist.flip.X /\ r.is_canon = 0

\* C7: every step of a canonicalize(A, B) call leaves each blocks row of a hash
\* outside A and B as it is, keeps the blocks rows (the same keys, each row
\* changed in is_canon at most), and leaves transactions, logs and sync_status
\* as they are.
C7_CanonicalizeFrame ==
  [][\A p \in Tasks :
       (task[p].op = "canonicalize" /\ task'[p] # task[p]) =>
         /\ \A r \in db.blocks :
              r.substrate_block_hash \notin task[p].retracted \cup task[p].enacted
                => r \in db'.blocks
         /\ \A r \in db.blocks :
              \E v \in {0, 1} : [r EXCEPT !.is_canon = v] \in db'.blocks
         /\ Cardinality(db'.blocks) = Cardinality(db.blocks)
         /\ db'.transactions = db.transactions
         /\ db'.logs = db.logs
         /\ db'.sync_status = db.sync_status]_vars

\* A canonicalize has committed that enacted a row, next to a non-canonical
\* row of a hash it did not name, with transactions, logs and queue filled.
C7_Witness ==
  \E p \in Tasks :
    /\ task[p].op = "canonicalize"
    /\ task[p].pc = "done"
    /\ task[p].ret = "ok"
    /\ \E r \in db.blocks :
         /\ r.substrate_block_hash \in task[p].enacted
         /\ r.block_number = 1
    /\ \E r \in db.blocks :
         /\ r.substrate_block_hash \notin task[p].retracted \cup task[p].enacted
         /\ r.is_canon = 0
    /\ db.transactions # {}
    /\ db.logs # EmptyBag

\* C8: the is_canon of a blocks row that exists changes only in the commit of
\* a canonicalize call.
C8_OnlyCanonicalizeFlips ==
  [][\A r \in db.blocks : \A s \in db'.blocks :
       (SameBlockKey(r, s) /\ r.is_canon # s.is_canon)
         => \E p \in Tasks : Commits(p, "canonicalize")]_vars

\* insert_block_metadata has run its INSERT OR IGNORE of a block whose row
\* exists with the other is_canon: the chain reader's canonical hash of that
\* height has changed since the row was written.
C8_Witness ==
  \E p \in Tasks :
    /\ task[p].op = "insert_block_metadata"
    /\ task[p].pc = "ibm_sync"
    /\ writer = p
    /\ \E i \in 1..Len(task[p].block_metadata) :
         \E r \in db.blocks :
           /\ SameBlockKey(r, BlockRow(task[p].block_metadata[i]))
           /\ r.is_canon # task[p].block_metadata[i].is_canon
           /\ r \in tx.blocks

\* C9: canonicalize is atomic across both sets.  The committed store, which is
\* what a reader sees, is changed by no step of a canonicalize call but its
\* commit, which retracts and enacts at once; a call that fails, at the
\* retracting update, at the enacting update or at the commit, leaves the
\* committed store as it was.
C9_CanonicalizeAtomic ==
  [][\A p \in Tasks :
       (task[p].op = "canonicalize" /\ task'[p] # task[p]) =>
         IF Commits(p, "canonicalize")
         THEN db' = UpdateIsCanon(UpdateIsCanon(db, task[p].retracted, 0),
                                  task[p].enacted, 1)
         ELSE db' = db]_vars

\* A canonicalize call stands between its two updates: its transaction has
\* set a canonical row to 0 and has not yet set the row it enacts to 1, and
\* the committed store holds both rows as before.
C9_Witness ==
  \E p \in Tasks :
    /\ task[p].op = "canonicalize"
    /\ task[p].pc = "can_enact"
    /\ writer = p
    /\ \E r \in db.blocks :
         /\ r.substrate_block_hash \in task[p].retracted
         /\ r.is_canon = 1
         /\ [r EXCEPT !.is_canon = 0] \in tx.blocks
    /\ \E r \in db.blocks :
         /\ r.substrate_block_hash \in task[p].enacted \ task[p].retracted
         /\ r.is_canon = 0
         /\ r \in tx.blocks

\* C10: once no call is running, the is_canon of the blocks row of a hash is
\* what the latest canonicalize call that named the hash made it: 0 if it
\* retracted the hash, 1 if it enacted it.
C10_LatestCanonicalizeWins ==
  (\A p \in Tasks : task[p].pc \in {"idle", "done"}) =>
    \A r \in db.blocks :
      r.substrate_block_hash = TrackedHash =>
        /\ hist.last = "retracted" => r.is_canon = 0
        /\ hist.last = "enacted" => r.is_canon = 1

\* C11: every substrate_block_hash of a committed logs row is the
\* substrate_block_hash of a committed blocks row.
C11_LogsHaveBlock ==
  \A l \in BagToSet(db.logs) :
    \E b \in db.blocks : b.substrate_block_hash = l.substrate_block_hash

\* A batch with a hash that has no blocks row (no header, or no post-hashes
\* digest) was queued whole, that hash was claimed by a committed pass, and
\* the logs of the other block of the batch are committed.
C11_Witness ==
  /\ db.logs # EmptyBag
  /\ \E r \in db.sync_status :
       /\ r.status = 1
       /\ r.substrate_block_hash = UnknownHash
       /\ \A b \in db.blocks : b.substrate_block_hash # r.substrate_block_hash
  /\ \A p \in Tasks : task[p].pc \in {"idle", "done"}

\* C12: every substrate_block_hash of a committed transactions row is the
\* substrate_block_hash of a committed blocks row.
C12_TransactionsHaveBlock ==
  \A t \in db.transactions :
    \E b \in db.blocks : b.substrate_block_hash = t.substrate_block_hash

\* Transactions of a block that was inserted as not canonical are committed,
\* next to a queued hash that has no blocks row.
C12_Witness ==
  /\ \E t \in db.transactions :
       \E b \in db.blocks :
         /\ b.substrate_block_hash = t.substrate_block_hash
         /\ b.is_canon = 0
         /\ t.ethereum_transaction_index = 1
  /\ \E r \in db.sync_status :
       \A b \in db.blocks : b.substrate_block_hash # r.substrate_block_hash

\* C13: no two committed blocks rows of one ethereum_block_hash both have
\* is_canon = 1.
C13_OneCanonicalPerEthereumHash ==
  \A r, s \in db.blocks :
    (r.ethereum_block_hash = s.ethereum_block_hash /\ r.is_canon = 1 /\ s.is_canon = 1)
      => r = s

(***************************************************************************)
(* filter_logs: what a call returns.                                       *)
(***************************************************************************)
\* The four positional sets of a request, read off its rows.
PositionalSets(topics) ==
  [i \in 1..MAX_TOPIC_COUNT |->
     {topics[k][i] : k \in {x \in 1..Len(topics) : i <= Len(topics[x])}} \ {None}]

TopicOf(l, i) ==
  CASE i = 1 -> l.topic_1 [] i = 2 -> l.topic_2
    [] i = 3 -> l.topic_3 [] i = 4 -> l.topic_4

\* The log l of the block b meets the filter of the request r.
FilterPredicate(r, l, b) ==
  /\ b.substrate_block_hash = l.substrate_block_hash
  /\ b.is_canon = 1
  /\ r.from_block <= b.block_number
  /\ b.block_number <= r.to_block
  /\ r.addresses # << >> => l.address \in SeqToSet(r.addresses)
  /\ \A i \in 1..MAX_TOPIC_COUNT :
       PositionalSets(r.topics)[i] # {} =>
         TopicOf(l, i) \in PositionalSets(r.topics)[i]

\* The rows of the store d that meet the filter of the request r.
MatchingRows(d, r) ==
  {FilteredLog(x[1], x[2]) :
     x \in {y \in BagToSet(d.logs) \X d.blocks : FilterPredicate(r, y[1], y[2])}}

\* Task p's query is run in this step and filter_logs returns Ok(out).
Fetches(p) ==
  /\ task[p].pc = "fl_fetch"
  /\ task'[p].pc = "done"
  /\ task'[p].ret = "ok"

\* C14: every row filter_logs(f, t, A, topics) returns is a log of a block
\* that has is_canon = 1 when the query runs and a block_number in [f, t],
\* with its address in A when A is not empty and its topic_i in T[i] for
\* every position whose set T[i] is not empty.
C14_FilterSoundness ==
  [][\A p \in Tasks :
       Fetches(p) =>
         \A k \in 1..Len(task'[p].fl.out) :
           task'[p].fl.out[k] \in MatchingRows(db, task[p].fl)]_vars

\* C15: every log that meets the filter is returned when at most LIMIT rows
\* meet it; when more do, the first LIMIT of them in result order are.
C15_FilterCompleteness ==
  [][\A p \in Tasks :
       Fetches(p) =>
         LET M == MatchingRows(db, task[p].fl)
             O == SeqToSet(task'[p].fl.out)
         IN IF Cardinality(M) <= QueryLimit
            THEN M \subseteq O
            ELSE /\ Len(task'[p].fl.out) = QueryLimit
                 /\ O \subseteq M
                 /\ \A m \in M \ O : \A o \in O : ~OrderKeyBefore(m, o)]_vars

\* The calls of filter_logs that returned Ok(out).
Filtered == {p \in Tasks : task[p].op = "filter_logs" /\ task[p].ret = "ok"}

\* C16: the sequence filter_logs returns is sorted ascending by
\* (block_number, transaction_index, log_index) and has every log row at
\* most once.
C16_SortedNoDuplicates ==
  \A p \in Filtered :
    \A i, j \in 1..Len(task[p].fl.out) :
      i < j => /\ ~OrderKeyBefore(task[p].fl.out[j], task[p].fl.out[i])
               /\ GroupKey(task[p].fl.out[i]) # GroupKey(task[p].fl.out[j])

\* Logs of two forks at one height, equal in the sort key, and a log of a
\* higher block after them.
C16_Witness ==
  \E p \in Filtered :
    /\ Len(task[p].fl.out) = 3
    /\ task[p].fl.out[1].block_number = task[p].fl.out[2].block_number
    /\ task[p].fl.out[1].substrate_block_hash # task[p].fl.out[2].substrate_block_hash
    /\ task[p].fl.out[2].block_number < task[p].fl.out[3].block_number

\* Some row of the request has more than MAX_TOPIC_COUNT positions.
HasLongRow(topics) == \E k \in 1..Len(topics) : Len(topics[k]) > MAX_TOPIC_COUNT

\* C17: a request with a topic row of more than 4 positions fails with the
\* invalid-topic error, whatever the values of the row and whatever the other
\* rows; no query is built or run and the store is as it was. A request whose
\* rows all have at most 4 positions never fails with that error.
C17_TopicArity ==
  /\ [](\A p \in Tasks :
          task[p].op = "filter_logs" /\ task[p].pc # "fl_topics" =>
            /\ task[p].ret = "err_invalid_topic" <=> HasLongRow(task[p].fl.topics)
            /\ HasLongRow(task[p].fl.topics) =>
                 /\ task[p].pc = "done"
                 /\ task[p].fl.sql = << >>
                 /\ task[p].fl.out = << >>)
  /\ [][\A p \in Tasks :
          task[p].pc = "fl_topics" /\ task'[p].ret = "err_invalid_topic" =>
            /\ db' = db
            /\ tx' = tx
            /\ writer' = writer]_vars

\* The call failed on a row of five wildcards that follows a row of four
\* values.
C17_Witness ==
  \E p \in Tasks :
    /\ task[p].ret = "err_invalid_topic"
    /\ task[p].fl.topics = <<<<"ta", "ta", "ta", "ta">>, <<None, None, None, None, None>>>>

\* Both bounds of task p's request are below 2^63, scaled.
BoundsFitI64(p) ==
  /\ task[p].fl.from_block < 2^(BlockBits - 1)
  /\ task[p].fl.to_block < 2^(BlockBits - 1)

\* C18: the rows of topics are normalized to four positional sets, T[i]
\* being the values h that some row has as Some(h) at position i (None
\* entries, short rows, rows of wildcards only and repeated values add
\* nothing), and a log matches when every T[i] that is not empty contains its
\* topic_i: the rows returned for a request under the row limit are the logs
\* that meet the filter with these sets.
C18_PositionalSets ==
  /\ [](\A p \in Tasks :
          /\ task[p].op = "filter_logs"
          /\ (task[p].pc \in {"fl_build", "fl_acquire", "fl_handler", "fl_fetch"}
              \/ task[p].ret \in {"ok", "err_acquire", "err_decode", QueryError})
          => task[p].fl.unique_topics = PositionalSets(task[p].fl.topics))
  /\ [][\A p \in Tasks :
          /\ Fetches(p)
          /\ BoundsFitI64(p)
          /\ Cardinality(MatchingRows(db, task[p].fl)) <= QueryLimit
          => SeqToSet(task'[p].fl.out) = MatchingRows(db, task[p].fl)]_vars

\* The rows [ta] and [None, tb]: the log with the topics ta, tb is returned
\* and the log with the one topic ta, which the first row alone matches, is
\* not.
C18_Witness ==
  \E p \in Filtered :
    /\ task[p].fl.topics = <<<<"ta">>, <<None, "tb">>>>
    /\ task[p].fl.addresses = << >>
    /\ task[p].fl.out # << >>
    /\ \A k \in 1..Len(task[p].fl.out) :
         /\ task[p].fl.out[k].transaction_index = 0
         /\ task[p].fl.out[k].log_index = 0

\* The number of topics the log of the row l was emitted with.
EmittedTopics(l) ==
  Len(Receipts(l.substrate_block_hash)[l.transaction_index + 1][l.log_index + 1].topics)

TopicColumn(i) ==
  CASE i = 1 -> "topic_1" [] i = 2 -> "topic_2"
    [] i = 3 -> "topic_3" [] i = 4 -> "topic_4"

\* The store d with the value v in the slot topic_i of the row l.
WithSlot(d, l, i, v) ==
  [d EXCEPT !.logs = SetToBag((BagToSet(d.logs) \ {l})
                               \cup {[l EXCEPT ![TopicColumn(i)] = v]})]

\* The query q selects the log of the row l from the store d.
Selects(d, q, l) ==
  \E r \in Joined(d, q) :
    GroupKey(r) = <<l.substrate_block_hash, l.transaction_index, l.log_index>>

\* C19: the query never filters on a padded slot: for a log emitted with
\* fewer than i topics, what is stored in its slot topic_i does not decide
\* whether the query of a request selects it; with any other value in the
\* slot the log is selected or left out just the same.
C19_PaddedSlotNeverDecides ==
  \A p \in Tasks :
    task[p].pc = "fl_fetch" =>
      \A l \in BagToSet(db.logs) :
        \A i \in (EmittedTopics(l) + 1)..MAX_TOPIC_COUNT :
          \A v \in {"ta", "tb", ZeroHash} :
            Selects(db, task[p].fl, l) <=> Selects(WithSlot(db, l, i, v), task[p].fl, l)

\* n placeholders with ", " between them.
Placeholders(n) == [k \in 1..(2 * n - 1) |-> IF k % 2 = 1 THEN "?" ELSE ", "]

\* The clause of position i for a set of n values.
TopicClauseOf(i, n) ==
  IF n = 0 THEN << >>
  ELSE IF n = 1 THEN <<TopicEq(i), "?">>
  ELSE <<TopicIn(i)>> \o Placeholders(n) \o <<")">>

\* The number of values bound before those of position i.
BoundBefore(A, T, i) ==
  2 + Len(A) + (IF i > 1 THEN Cardinality(T[1]) ELSE 0)
             + (IF i > 2 THEN Cardinality(T[2]) ELSE 0)
             + (IF i > 3 THEN Cardinality(T[3]) ELSE 0)
             + (IF i > 4 THEN Cardinality(T[4]) ELSE 0)

\* The calls of filter_logs whose query is built.
Built ==
  {p \in Tasks : /\ task[p].op = "filter_logs"
                  /\ (task[p].pc \in {"fl_acquire", "fl_handler", "fl_fetch"}
                      \/ task[p].ret \in {"ok", "err_acquire", "err_decode", QueryError})}

\* C20: the text of build_query has the address IN clause exactly when
\* addresses is not empty and, for every position i, no clause when T[i] is
\* empty, `l.topic_i = ?` when it has one value and `l.topic_i IN (...)` when
\* it has more, in the order address, topic_1 .. topic_4; it has one
\* placeholder per value bound, 2 + |addresses| + the sizes of the T[i], and
\* the values are bound in the order from, to, addresses, then the sets by
\* position.
C20_QueryText ==
  \A p \in Built :
    LET A == task[p].fl.addresses
        T == task[p].fl.unique_topics
        sql == task[p].fl.sql
        args == task[p].fl.arguments
    IN /\ sql = <<SelectFrom, "?", " AND ", "?", ")",
                  " AND b.substrate_block_hash = l.substrate_block_hash",
                  " AND b.is_canon = 1", " WHERE 1">>
                \o (IF A = << >> THEN << >>
                    ELSE <<AddressIn>> \o Placeholders(Len(A)) \o <<")">>)
                \o TopicClauseOf(1, Cardinality(T[1]))
                \o TopicClauseOf(2, Cardinality(T[2]))
                \o TopicClauseOf(3, Cardinality(T[3]))
                \o TopicClauseOf(4, Cardinality(T[4]))
                \o <<GroupOrderLimit>>
       /\ Cardinality({k \in 1..Len(sql) : sql[k] = "?"}) = BoundBefore(A, T, 5)
       /\ Len(args) = BoundBefore(A, T, 5)
       /\ (args[1] - task[p].fl.from_block) % (2^BlockBits) = 0
       /\ (args[2] - task[p].fl.to_block) % (2^BlockBits) = 0
       /\ SubSeq(args, 3, 2 + Len(A)) = A
       /\ \A i \in 1..MAX_TOPIC_COUNT :
            SeqToSet(SubSeq(args, BoundBefore(A, T, i) + 1, BoundBefore(A, T, i + 1)))
              = T[i]

\* A query with the address clause, topic_1 IN of two values, topic_2 = of
\* one value and no clause for the positions 3 and 4.
C20_Witness ==
  \E p \in Built :
    /\ task[p].fl.addresses # << >>
    /\ Cardinality(task[p].fl.unique_topics[1]) = 2
    /\ Cardinality(task[p].fl.unique_topics[2]) = 1
    /\ task[p].fl.unique_topics[3] = {}

\* C21: build_query gives the same text whenever it is run on the same
\* from_block, to_block, addresses and topic sets: the text of the query
\* built is the text of every run, in whatever order the sets are iterated.
C21_SameText ==
  \A p \in Built :
    \A o1 \in Orders(task[p].fl.unique_topics[1]),
       o2 \in Orders(task[p].fl.unique_topics[2]),
       o3 \in Orders(task[p].fl.unique_topics[3]),
       o4 \in Orders(task[p].fl.unique_topics[4]) :
      build_query(task[p].fl.from_block, task[p].fl.to_block,
                  task[p].fl.addresses, <<o1, o2, o3, o4>>).sql = task[p].fl.sql

\* A query built from sets of two values each, iterated in opposite orders.
C21_Witness ==
  \E p \in Built :
    /\ task[p].fl.unique_topics[1] = {"ta", "tb"}
    /\ task[p].fl.unique_topics[2] = {"ta", "tb"}
    /\ task[p].fl.arguments = <<0, 2^(BlockBits - 1) - 1, "tb", "ta", "ta", "tb">>

\* C22: in filter_logs the progress handler is installed on the connection
\* acquired before the first row is fetched, and it is removed on every way
\* out that follows: no connection is back in the pool with the handler
\* still installed.
C22_HandlerRemoved ==
  \A p \in Tasks :
    task[p].op = "filter_logs" =>
      /\ task[p].pc = "fl_fetch" => task[p].fl.conn /\ task[p].fl.handler
      /\ ~task[p].fl.conn => ~task[p].fl.handler

\* C23: when the handler stops the statement, filter_logs returns an error
\* that describes the exhaustion of the budget: it is not Ok(rows), and it is
\* not the error of a statement that failed for another reason.
C23_BudgetError ==
  \A p \in Tasks :
    task[p].op = "filter_logs" /\ task[p].fl.interrupted =>
      task[p].ret \notin {"ok", QueryError}

(***************************************************************************)
(* The readers.                                                            *)
(***************************************************************************)
ReaderOps == {"block_hash", "transaction_metadata", "filter_logs"}

\* C24: block_hash, transaction_metadata and filter_logs leave every row of
\* blocks, transactions, logs and sync_status as it is, whether they succeed
\* or fail: no step of a reader changes the committed store or the open
\* transaction.
C24_ReadersFrame ==
  [][\A p \in Tasks :
       /\ task[p].op \in ReaderOps \/ task'[p].op \in ReaderOps
       /\ task'[p] # task[p]
       => db' = db /\ tx' = tx]_vars

\* A reader has failed on a store with rows while the transaction of
\* canonicalize is open.
C24_Witness ==
  \E p \in Tasks :
    /\ task[p].op \in ReaderOps
    /\ task[p].pc = "done"
    /\ task[p].ret \in {"panic", "err_decode", QueryError}
    /\ writer # NoTask
    /\ tx # db
    /\ db.blocks # {}

\* C25: block_hash(e) returns the substrate_block_hash of every blocks row
\* whose ethereum_block_hash is e and of no other row, across forks and
\* whatever is_canon is, and transaction_metadata(t) returns one entry
\* (substrate hash, Ethereum block hash, index) for every transactions row
\* whose ethereum_transaction_hash is t; both when the query itself succeeds.
C25_ReaderResults ==
  [][\A p \in Tasks :
       task[p].pc = "idle" /\ task'[p].ret = "ok" =>
         /\ task'[p].op = "block_hash" =>
              \A h \in Hashes \cup {"h3", UnknownHash, ShortBlob} :
                h \in task'[p].block_hashes <=>
                  \E b \in db.blocks : /\ b.ethereum_block_hash = task'[p].key
                                        /\ b.substrate_block_hash = h
         /\ task'[p].op = "transaction_metadata" =>
              LET rows == {r \in db.transactions :
                             r.ethereum_transaction_hash = task'[p].key}
              IN /\ Cardinality(task'[p].metadata) = Cardinality(rows)
                 /\ \A r \in rows :
                      \E m \in task'[p].metadata :
                        /\ m.block_hash = r.substrate_block_hash
                        /\ m.ethereum_block_hash = r.ethereum_block_hash
                        /\ m.ethereum_index = r.ethereum_transaction_index]_vars

\* block_hash has returned the hashes of the two forks of one Ethereum block,
\* one of them not canonical.
C25_Witness ==
  \E p \in Tasks :
    /\ task[p].op = "block_hash"
    /\ task[p].ret = "ok"
    /\ task[p].block_hashes = {"h1", "h2"}
    /\ \E b \in db.blocks : b.substrate_block_hash = "h1" /\ b.is_canon = 0
    /\ \E b \in db.blocks : b.substrate_block_hash = "h2" /\ b.is_canon = 1

\* C26: when a stored column of a row selected does not decode (a blob that
\* is not a 32-byte hash), block_hash and transaction_metadata return an
\* empty result: the call does not fail and the task is not aborted.
C26_DecodeFailureIsEmpty ==
  [][\A p \in Tasks :
       /\ task[p].pc = "idle"
       /\ task'[p].op \in {"block_hash", "transaction_metadata"}
       /\ \/ \E b \in db.blocks : /\ task'[p].op = "block_hash"
                                  /\ b.ethereum_block_hash = task'[p].key
                                  /\ ~IsH256(b.substrate_block_hash)
          \/ \E r \in db.transactions : /\ task'[p].op = "transaction_metadata"
                                        /\ r.ethereum_transaction_hash = task'[p].key
                                        /\ ~IsH256(r.substrate_block_hash)
       => /\ task'[p].ret # "panic"
          /\ task'[p].block_hashes = {}
          /\ task'[p].metadata = {}]_vars

\* The step in which task p's insert_genesis_block_metadata returns Ok.
GenesisReturns(p) ==
  /\ task[p].pc = "gen_insert"
  /\ task'[p].pc = "done"
  /\ task'[p].ret = "ok"

\* C27: insert_genesis_block_metadata inserts a blocks row of the genesis
\* block with block_number 0 and is_canon 1 and returns the genesis hash
\* exactly when the runtime has the EVM RPC API at block 0; in every other
\* case (no API, or no genesis header) it inserts nothing and returns None.
C27_GenesisRowWithApi ==
  [][\A p \in Tasks :
       GenesisReturns(p) =>
         IF task[p].client.genesis_header /\ task[p].client.has_api
         THEN /\ task'[p].some
              /\ \E b \in db'.blocks : /\ b.substrate_block_hash = "h0"
                                       /\ b.block_number = 0
                                       /\ b.is_canon = 1
         ELSE /\ ~task'[p].some
              /\ db' = db]_vars

\* C28: after a successful insert_block_metadata(H) sync_status has one row
\* for every hash of H, created by the call with status 0, also for a hash
\* without a header or without a post-hashes log: the rows the commit adds
\* are one pending row per entry of H.
C28_OneSyncRowPerHash ==
  [][\A p \in Tasks :
       Commits(p, "insert_block_metadata") =>
         LET H == task[p].hashes
             created == db'.sync_status \ db.sync_status
         IN /\ created = {[substrate_block_hash |-> h, status |-> 0] :
                            h \in SeqToSet(H)}
            /\ Cardinality(created) = Len(H)
            /\ \A h \in SeqToSet(H) :
                 Cardinality({r \in db'.sync_status :
                                r.substrate_block_hash = h}) = 1]_vars

\* The batch of a hash without a header and a hash without a post-hashes log
\* is committed: both are queued as pending and no blocks row is written.
C28_Witness ==
  /\ task["t1"].op = "insert_block_metadata"
  /\ task["t1"].ret = "ok"
  /\ task["t1"].hashes = <<UnknownHash, "h0">>
  /\ db.blocks = {}
  /\ {[substrate_block_hash |-> UnknownHash, status |-> 0],
      [substrate_block_hash |-> "h0", status |-> 0]} \subseteq db.sync_status

\* The hashes of a batch whose digest yields MultipleLogs.
TwoLogsIn(H) ==
  {i \in 1..Len(H) : HasHeader(H[i]) /\ FindLog(H[i]) = "MultipleLogs"}

\* C29: when the digest of some hash of the batch yields MultipleLogs,
\* insert_block_metadata fails with a protocol error and commits nothing: it
\* never holds the write lock, the store and the transaction stay as they
\* were, and no blocks, transactions or sync_status row of a hash of the
\* batch exists afterwards, the hashes before the failing one included.
C29_MultipleLogsCommitsNothing ==
  /\ [](\A p \in Tasks :
          (task[p].op = "insert_block_metadata" /\ TwoLogsIn(task[p].hashes) # {}) =>
            /\ task[p].pc \in {"ibm_inner", "done"}
            /\ task[p].ret \in {"none", "err_protocol"}
            /\ writer # p
            /\ \A h \in SeqToSet(task[p].hashes) :
                 /\ \A r \in db.blocks : r.substrate_block_hash # h
                 /\ \A r \in db.transactions : r.substrate_block_hash # h
                 /\ \A r \in db.sync_status : r.substrate_block_hash # h)
  /\ [][\A p \in Tasks :
          (/\ task[p].op = "insert_block_metadata"
           /\ TwoLogsIn(task[p].hashes) # {}
           /\ task[p].pc = "ibm_inner"
           /\ task'[p] # task[p]) =>
            /\ task'[p].pc = "done"
            /\ task'[p].ret = "err_protocol"
            /\ db' = db
            /\ tx' = tx]_vars

\* A batch whose second hash has two logs, after a hash with a valid log,
\* has failed and the store is empty.
C29_Witness ==
  /\ task["t1"].op = "insert_block_metadata"
  /\ task["t1"].hashes = <<"h1", TwoLogsHash>>
  /\ task["t1"].pc = "done"
  /\ task["t1"].ret = "err_protocol"
  /\ db = EmptyDb

\* The hashes of a batch that insert_block_metadata_inner passes over: the
\* client has no header for them, or their digest has no log.
Skipped(H) ==
  {h \in SeqToSet(H) : h = UnknownHash \/ FindLog(h) = "NotFound"}

\* The batch without the hashes passed over.
Kept(H) == SelectSeq(H, LAMBDA h : h \notin Skipped(H))

\* C30: a hash with no header or with no log in its digest is passed over
\* silently. insert_block_metadata_inner gives for the batch what it gives
\* for the batch without these hashes, so they do not make it fail; and a
\* call that commits has written the blocks and transactions rows of the
\* batch without them, with no blocks or transactions row for any of them.
C30_SkippedSilently ==
  /\ [](\A p \in Tasks :
          (task[p].op = "insert_block_metadata" /\ task[p].pc = "ibm_inner") =>
            LET r == insert_block_metadata_inner(chain, task[p].hashes)
                k == insert_block_metadata_inner(chain, Kept(task[p].hashes))
            IN /\ r = k
               /\ TwoLogsIn(task[p].hashes) = {} => r.ok
               /\ \A i \in 1..Len(r.out) :
                    r.out[i].substrate_block_hash \notin Skipped(task[p].hashes))
  /\ [][\A p \in Tasks :
          Commits(p, "insert_block_metadata") =>
            LET H == task[p].hashes
                k == insert_block_metadata_inner(chain, Kept(H))
                w == InsertBlocks(db, k.out)
            IN /\ db'.blocks = w.blocks
               /\ db'.transactions = w.transactions
               /\ \A h \in SeqToSet(Kept(H)) :
                    \E r \in db'.blocks : r.substrate_block_hash = h
               /\ \A h \in Skipped(H) :
                    /\ \A r \in db'.blocks : r.substrate_block_hash # h
                    /\ \A r \in db'.transactions : r.substrate_block_hash # h]_vars

\* A batch of a hash with no header and a valid hash was committed: the
\* valid hash has its blocks row and its transactions rows.
C30_Witness ==
  /\ task["t1"].op = "insert_block_metadata"
  /\ task["t1"].hashes = <<UnknownHash, "h1">>
  /\ task["t1"].ret = "ok"
  /\ {r.substrate_block_hash : r \in db.blocks} = {"h1"}
  /\ {r.ethereum_transaction_hash : r \in db.transactions} = {"x1", "x2"}

\* C31: a blocks row that a call of insert_block_metadata creates for hash h
\* at height n has is_canon 1 exactly when the chain reader's canonical hash
\* of n is h, and 0 when that hash is another one or there is none; is_canon
\* is 0 or 1.
C31_IsCanonAtInsert ==
  [][\A p \in Tasks :
       Commits(p, "insert_block_metadata") =>
         \A r \in db'.blocks \ db.blocks :
           /\ r.is_canon \in {0, 1}
           /\ r.block_number = HeaderNumber(r.substrate_block_hash)
           /\ (r.is_canon = 1) <=>
                (CanonicalHash(chain, r.block_number) = r.substrate_block_hash)]_vars

\* With h1 canonical at height 1, a call that committed created the row of
\* h1 with is_canon 1 and the row of h3, whose height has no canonical hash,
\* with is_canon 0.
C31_Witness ==
  /\ chain.canon1 = "h1"
  /\ task["t1"].op = "insert_block_metadata"
  /\ task["t1"].ret = "ok"
  /\ task["t1"].hashes = <<"h1", "h3">>
  /\ \E r \in db.blocks : r.substrate_block_hash = "h1" /\ r.is_canon = 1
  /\ \E r \in db.blocks : r.substrate_block_hash = "h3" /\ r.is_canon = 0

\* The write operations that run in one transaction.
WriteOps == {"insert_block_metadata", "index_pending_block_logs", "canonicalize"}

\* C32: the writes of one call are atomic. The committed store changes only
\* when a call commits (or at the one statement of the genesis insert); a
\* call of insert_block_metadata, index_pending_block_logs or canonicalize
\* that ends otherwise leaves the committed store as it is, its transaction
\* is rolled back and the write lock is free, and insert_block_metadata and
\* canonicalize return an error.
C32_WritesAtomic ==
  [][/\ \A p \in Tasks :
          (task[p].op \in WriteOps /\ Ends(p, task[p].op) /\ ~Commits(p, task[p].op)) =>
            /\ db' = db
            /\ tx' = db
            /\ writer' = NoTask
            /\ task'[p].ret \in {"err_db", "err_protocol", "err_syntax", "err_unique"}
     /\ db' # db =>
          \E p \in Tasks :
            \/ Commits(p, task[p].op)
            \/ task[p].pc = "gen_insert"]_vars

\* A pass of index_pending_block_logs claimed h1 and then failed: the row is
\* pending in the committed store and no log is committed.
C32_Witness ==
  /\ task["t1"].op = "index_pending_block_logs"
  /\ task["t1"].pc = "done"
  /\ task["t1"].ret = "err_db"
  /\ task["t1"].block_hashes = {"h1"}
  /\ [substrate_block_hash |-> "h1", status |-> 0] \in db.sync_status
  /\ db.logs = EmptyBag

\* The rows of store d for log li of receipt ti of block h (positions from 1).
RowsOfLog(d, h, ti, li) ==
  {r \in BagToSet(d.logs) :
     /\ r.substrate_block_hash = h
     /\ r.transaction_index = ti - 1
     /\ r.log_index = li - 1}

\* The four topic columns of a row.
TopicColumns(r) == <<r.topic_1, r.topic_2, r.topic_3, r.topic_4>>

\* C33: for every log of every receipt of a block that a pass of
\* index_pending_block_logs claimed, the pass produces one Log record and the
\* committed store holds one row for it: transaction_index is the receipt's
\* position in the block, log_index the log's position in the receipt, and
\* topic_1..topic_4 are the log's topics 0..3, an absent position being the
\* zero hash.
C33_OneRowPerLog ==
  [][\A p \in Tasks :
       Commits(p, "index_pending_block_logs") =>
         \A h \in task[p].block_hashes :
           \A ti \in 1..Len(Receipts(h)) :
             \A li \in 1..Len(Receipts(h)[ti]) :
               LET log  == Receipts(h)[ti][li]
                   made == {r \in task[p].logs :
                              /\ r.substrate_block_hash = h
                              /\ r.transaction_index = ti - 1
                              /\ r.log_index = li - 1}
                   rows == RowsOfLog(db', h, ti, li)
               IN /\ Cardinality(made) = 1
                  /\ rows = made
                  /\ \A r \in rows :
                       /\ CopiesIn(r, db'.logs) = 1
                       /\ r.address = log.address
                       /\ \A k \in 1..4 :
                            TopicColumns(r)[k] =
                              IF k <= Len(log.topics) THEN log.topics[k] ELSE ZeroHash]_vars

\* A pass that claimed h1 committed: the one log of its second receipt is a
\* row with transaction_index 1 and log_index 0, and the second log of its
\* first receipt, which has one topic, has three zero topics.
C33_Witness ==
  /\ task["t2"].op = "index_pending_block_logs"
  /\ task["t2"].ret = "ok"
  /\ "h1" \in task["t2"].block_hashes
  /\ \E r \in BagToSet(db.logs) :
       /\ r.substrate_block_hash = "h1"
       /\ r.transaction_index = 1 /\ r.log_index = 0
       /\ TopicColumns(r) = <<"tb", "ta", "tc", "td">>
  /\ \E r \in BagToSet(db.logs) :
       /\ r.substrate_block_hash = "h1"
       /\ r.transaction_index = 0 /\ r.log_index = 1
       /\ TopicColumns(r) = <<"ta", ZeroHash, ZeroHash, ZeroHash>>

\* C34: no operation deletes a blocks row or a logs row, and none modifies a
\* committed logs row: over every step, each committed logs row is still
\* there with the same values, and each committed blocks row is still there
\* with every column but is_canon unchanged.
C34_RowsNeverDeleted ==
  [][/\ \A r \in BagToSet(db.logs) : CopiesIn(r, db'.logs) >= CopiesIn(r, db.logs)
     /\ \A r \in db.blocks :
          \E s \in db'.blocks : s = [r EXCEPT !.is_canon = s.is_canon]
     /\ Cardinality(db'.blocks) >= Cardinality(db.blocks)]_vars

\* canonicalize retracted h1 after its logs were indexed: its blocks row is
\* there with is_canon 0 and its three logs rows are there.
C34_Witness ==
  /\ task["t1"].op = "canonicalize"
  /\ task["t1"].ret = "ok"
  /\ task["t1"].retracted = {"h1"}
  /\ chain.canon1 = "h1"
  /\ \E r \in db.blocks : r.substrate_block_hash = "h1" /\ r.is_canon = 0
  /\ Cardinality({r \in BagToSet(db.logs) : r.substrate_block_hash = "h1"}) = 3

\* C35: for an automatic fee, into_transaction_v2(base_fee, nonce) returns an
\* EIP-1559 transaction with the given nonce, whose (max_fee_per_gas,
\* max_priority_fee_per_gas) is (base_fee, 0) for Low, (2 * base_fee,
\* base_fee) for Medium and (3 * base_fee, 2 * base_fee) for High, a product
\* above the greatest value being that greatest value.
C35_AutoFee ==
  \A p \in Tasks :
    (/\ task[p].op = "into_transaction_v2"
     /\ task[p].pc = "done"
     /\ task[p].xcm.self.fee_payment.kind = "Auto") =>
      LET x    == task[p].xcm
          b    == x.base_fee
          mode == x.self.fee_payment.auto
          Sat(n) == IF n > U256Max THEN U256Max ELSE n
      IN /\ Len(x.out) = 1
         /\ x.out[1].kind = "EIP1559"
         /\ x.out[1].nonce = x.nonce
         /\ x.out[1].max_fee_per_gas \in Seq(U256)
         /\ x.out[1].max_priority_fee_per_gas \in Seq(U256)
         /\ <<x.out[1].max_fee_per_gas, x.out[1].max_priority_fee_per_gas>> =
              CASE mode = "Low"    -> << <<b>>, <<0>> >>
                [] mode = "Medium" -> << <<Sat(2 * b)>>, <<b>> >>
                [] mode = "High"   -> << <<Sat(3 * b)>>, <<Sat(2 * b)>> >>

\* A High fee on a base fee whose triple is above the greatest value but
\* whose double is not: max_fee_per_gas is the greatest value.
C35_Witness ==
  /\ task["t1"].op = "into_transaction_v2"
  /\ task["t1"].pc = "done"
  /\ task["t1"].xcm.self.fee_payment = [kind |-> "Auto",
                                        manual |-> CHOOSE m \in ManualFees : TRUE,
                                        auto |-> "High"]
  /\ task["t1"].xcm.base_fee = 3
  /\ task["t1"].xcm.nonce = U256Max
  /\ task["t1"].xcm.out[1].max_fee_per_gas = <<U256Max>>
  /\ task["t1"].xcm.out[1].max_priority_fee_per_gas = <<6>>

\* The hashes whose sync_status row differs between stores d and e.
StatusChanged(d, e) ==
  {h \in QueuedHashes(d) \cup QueuedHashes(e) :
     {r \in d.sync_status : r.substrate_block_hash = h}
       # {r \in e.sync_status : r.substrate_block_hash = h}}

\* Every row that differs was pending in d and is claimed in e.
OnlyClaims(d, e) ==
  \A h \in StatusChanged(d, e) :
    /\ [substrate_block_hash |-> h, status |-> 0] \in d.sync_status
    /\ {r \in e.sync_status : r.substrate_block_hash = h}
         = {[substrate_block_hash |-> h, status |-> 1]}

\* C36: one pass of index_pending_block_logs(max_pending) changes the status
\* of at most max_pending sync_status rows, each from 0 to 1; the hashes it
\* reads the receipts of are the hashes of the rows it changed, and what it
\* commits changes those rows only; with max_pending = 0 it claims nothing.
C36_ClaimLimit ==
  [][\A p \in Tasks :
       /\ (task[p].pc = "ipl_claim" /\ task'[p].pc = "ipl_get_logs") =>
            LET before  == IF writer = p THEN tx ELSE db
                changed == StatusChanged(before, tx')
            IN /\ Cardinality(changed) <= task[p].max_pending_blocks
               /\ OnlyClaims(before, tx')
               /\ task'[p].block_hashes = changed
               /\ task[p].max_pending_blocks = 0 => tx' = before
       /\ (task[p].pc = "ipl_get_logs" /\ task'[p].pc = "ipl_insert") =>
            /\ {LogKey(r) : r \in task'[p].logs} = ReceiptLogKeys(task[p].block_hashes)
            /\ task'[p].block_hashes = task[p].block_hashes
       /\ Commits(p, "index_pending_block_logs") =>
            /\ StatusChanged(db, db') = task[p].block_hashes
            /\ Cardinality(StatusChanged(db, db')) <= task[p].max_pending_blocks
            /\ OnlyClaims(db, db')]_vars

\* A pass with max_pending = 1 committed while two rows were pending: it
\* claimed one of them and the other is still pending.
C36_Witness ==
  \E p \in Tasks :
    /\ task[p].op = "index_pending_block_logs"
    /\ task[p].ret = "ok"
    /\ task[p].max_pending_blocks = 1
    /\ Cardinality(task[p].block_hashes) = 1
    /\ ClaimedHashes(db) = task[p].block_hashes
    /\ SelectPending(db) # {}

\* C37: the claim and the log inserts of one pass of index_pending_block_logs
\* commit together or not at all. When the pass ends without its commit
\* after the claim (the blocking worker fails, a log insert fails, the commit
\* fails), the rows it claimed are pending in the committed store, no logs
\* row of their blocks is committed, the write lock is free, and a later
\* pass finds these rows among the pending ones.
C37_ClaimAndLogsTogether ==
  [][\A p \in Tasks :
       (/\ task[p].op = "index_pending_block_logs"
        /\ task[p].pc \in {"ipl_get_logs", "ipl_insert", "commit"}
        /\ task'[p].pc = "done"
        /\ task'[p].ret # "ok") =>
         /\ \A h \in task[p].block_hashes :
              /\ [substrate_block_hash |-> h, status |-> 0] \in db'.sync_status
              /\ \A r \in BagToSet(db'.logs) : r.substrate_block_hash # h
         /\ db'.logs = db.logs
         /\ writer' = NoTask
         /\ task[p].block_hashes \subseteq SelectPending(tx')]_vars

\* The worker of a pass that had claimed h1 and h2 failed: both rows are
\* pending in the committed store.
C37_Witness ==
  \E p \in Tasks :
    /\ task[p].op = "index_pending_block_logs"
    /\ task[p].pc = "done"
    /\ task[p].ret = "err_protocol"
    /\ task[p].block_hashes = {"h1", "h2"}
    /\ SelectPending(db) = {"h1", "h2"}

\* The keys of the committed logs rows of block h.
CommittedLogKeys(h) ==
  {LogKey(r) : r \in {l \in BagToSet(db.logs) : l.substrate_block_hash = h}}

\* C38: in every committed state, for each sync_status row with status 1 the
\* logs table holds one row for every log of the receipts of that block, none
\* missing and none twice; so no block is committed as claimed with no logs
\* because its receipts could not be read when it was claimed.
C38_ClaimedHaveTheirLogs ==
  /\ \A r \in BagToSet(db.logs) : CopiesIn(r, db.logs) = 1
  /\ \A h \in ClaimedHashes(db) : CommittedLogKeys(h) = ReceiptLogKeys({h})

\* The block hashes of the chain reader's fixture.
AllHashes == Hashes \cup {"h3", UnknownHash, TwoLogsHash, PrunedHash}

\* C39: when index_pending_block_logs is called again and again with
\* max_pending >= 1 and its database steps succeed in the end, every pending
\* sync_status row is eventually claimed and the logs of its block are
\* eventually committed, also while insert_block_metadata queues new rows.
C39_QueueLiveness ==
  \A h \in AllHashes :
    ([substrate_block_hash |-> h, status |-> 0] \in db.sync_status)
      ~> (/\ [substrate_block_hash |-> h, status |-> 1] \in db.sync_status
          /\ CommittedLogKeys(h) = ReceiptLogKeys({h}))

\* C40: for every from_block and to_block of the u64 range, the two bounds
\* bound into the query of filter_logs are numerically from_block and
\* to_block; so a request with the greatest to_block returns the logs that
\* meet the filter in the blocks at or above from_block (up to the row limit).
C40_BoundsAreNumericallyEqual ==
  /\ [](\A p \in Built :
          /\ task[p].fl.arguments[1] = task[p].fl.from_block
          /\ task[p].fl.arguments[2] = task[p].fl.to_block)
  /\ [][\A p \in Tasks :
          (Fetches(p) /\ task[p].fl.to_block = 2^BlockBits - 1) =>
            LET M == MatchingRows(db, task[p].fl)
                O == SeqToSet(task'[p].fl.out)
            IN Cardinality(M) <= QueryLimit => M \subseteq O]_vars
====
